---- MODULE Spec2Model ----
(***************************************************************************)
(* Gateway layer of discord-mcp-server: the start-up of the single Discord *)
(* bot session, the HTTP handlers (http_mcp_server.py), the WebSocket      *)
(* handler, the RPC tools/resources (main.py) and the DiscordMCP methods   *)
(* they dispatch to.  The discord client library is external: a lookup in  *)
(* its cache and the outcome of a platform call are choices of the         *)
(* environment.                                                            *)
(***************************************************************************)
EXTENDS Integers, Sequences, FiniteSets, TLC

VARIABLES
    entry,        \* which entry point the process runs
    pc,           \* position of the entry point's start-up coroutine
    botAttr,      \* what reading the attribute `bot` of a DiscordMCP object gives
    discord_mcp,  \* StreamableHTTPMCP.discord_mcp: 0 (None) or a handle
    bot_instance, \* main.bot_instance: 0 (None) or a handle
    conn,         \* conn[h]: connection state of DiscordMCP object h
    starts,       \* number of connection starts requested so far
    http,         \* http[i]: an HTTP handler suspended in a platform call, or Idle
    ws,           \* ws[c]: WebSocket connection c
    rpc,          \* rpc[i]: an RPC invocation suspended in a platform call, or Idle
    resp,         \* the reply sent by the last step (NoResp when it sent none)
    call,         \* the platform call issued by the last step (NoCall when none)
    launch        \* the RPC server started by the last step (NoLaunch when none)

vars == <<entry, pc, botAttr, discord_mcp, bot_instance, conn, starts,
          http, ws, rpc, resp, call, launch>>

(***************************************************************************)
(* Bounds of the model.                                                    *)
(***************************************************************************)
MaxInflight == 1  \* requests being handled at once
MaxConns == 2     \* WebSocket connections
MaxEmojis == 2    \* length of the emoji list of add_multiple_reactions

(***************************************************************************)
(* Program constants.                                                      *)
(***************************************************************************)
DefaultLimit == 10   \* data.get("limit", 10); limit: int = 10
MinLimit == 1        \* min(max(1, limit), 100)
MaxLimit == 100      \* min(max(1, limit), 100)
StatusOK == 200      \* web.json_response default status
StatusBadRequest == 400
StatusServerError == 500

\* At most two DiscordMCP objects are ever constructed: start_server.py:13
\* and http_mcp_server.py:261 (or main.py:629 alone).
Handles == {1, 2}

(***************************************************************************)
(* JSON values as Python sees them after json decoding.  A string is the   *)
(* sequence of its characters, so that int() has something to parse.       *)
(***************************************************************************)
Absent == [t |-> "absent", n |-> 0, s |-> <<>>]
JNull == [t |-> "null", n |-> 0, s |-> <<>>]
JInt(k) == [t |-> "int", n |-> k, s |-> <<>>]
JStr(chars) == [t |-> "str", n |-> 0, s |-> chars]
JList == [t |-> "list", n |-> 0, s |-> <<>>]   \* a non-empty JSON array
JFalse == [t |-> "bool", n |-> 0, s |-> <<>>]

Digits == {"0", "1", "2", "3", "4", "5", "6", "7", "8", "9"}

DigitVal(c) ==
    CASE c = "0" -> 0 [] c = "1" -> 1 [] c = "2" -> 2 [] c = "3" -> 3
      [] c = "4" -> 4 [] c = "5" -> 5 [] c = "6" -> 6 [] c = "7" -> 7
      [] c = "8" -> 8 [] c = "9" -> 9

RECURSIVE ParseDigits(_)
ParseDigits(chars) ==
    IF chars = <<>> THEN 0
    ELSE 10 * ParseDigits(SubSeq(chars, 1, Len(chars) - 1))
         + DigitVal(chars[Len(chars)])

\* Python truthiness: `not x` is True for None, False, 0 and "".
Truthy(v) ==
    CASE v.t = "absent" -> FALSE
      [] v.t = "null" -> FALSE
      [] v.t = "int" -> v.n # 0
      [] v.t = "bool" -> v.n # 0
      [] v.t = "str" -> v.s # <<>>
      [] v.t = "list" -> TRUE

\* Python int(v): an int is itself, a bool is 0 or 1, a string of decimal
\* digits is parsed, any other string raises ValueError, None or a list
\* raises TypeError.
IntOk(v) ==
    \/ v.t \in {"int", "bool"}
    \/ v.t = "str" /\ v.s # <<>> /\ \A i \in 1..Len(v.s) : v.s[i] \in Digits

IntOf(v) == IF v.t \in {"int", "bool"} THEN v.n ELSE ParseDigits(v.s)

IntError(v) ==
    IF v.t = "str" THEN "ValueError: invalid literal for int()"
    ELSE "TypeError: int() argument must be a string or a number"

(***************************************************************************)
(* A decoded JSON object maps every key to a value; a key the object does  *)
(* not hold maps to Absent.                                                *)
(***************************************************************************)
Keys == {"action", "channel_id", "content", "limit", "user_id", "server_id",
         "name", "category_id", "message_id", "emoji"}

EmptyObject == [k \in Keys |-> Absent]

\* dict.get(k): None when the key is absent.
Get(data, k) == IF data[k].t = "absent" THEN JNull ELSE data[k]

\* dict.get(k, d): d only when the key is absent (a present null stays None).
GetDefault(data, k, d) == IF data[k].t = "absent" THEN d ELSE data[k]

(***************************************************************************)
(* Reply bodies.  A JSON object is a record, so DOMAIN gives its fields;   *)
(* a JSON array is a sequence of such records.                             *)
(***************************************************************************)
Obj(r) == [json |-> "object", o |-> r, items |-> <<>>]
Arr(s) == [json |-> "array", o |-> [empty |-> TRUE], items |-> s]

\* A variant that answers with the bare text of the error and no JSON body;
\* C13 tells it from the handlers' json_response.
BareText(text) == [json |-> "none", o |-> [text |-> text], items |-> <<>>]

ErrBody(text) == Obj([error |-> text])
StatusErrBody(text) == Obj([status |-> "error", message |-> text])

NotInitialized == "Discord bot not initialized"
InvalidJSON == "Invalid JSON"
NoGetAttribute == "AttributeError: object has no attribute 'get'"
NoBotAttribute == "AttributeError: 'DiscordMCP' object has no attribute 'bot'"

\* str(e) of the failures the platform client raises.
NotFoundText == "404 Not Found"
ForbiddenText == "403 Forbidden"
FailTexts == {"500 Internal Server Error", "Session is closed"}

(***************************************************************************)
(* The operation catalogue.                                                *)
(***************************************************************************)
HttpOps == {"send_message", "read_messages", "get_user_info", "list_servers",
            "create_text_channel", "delete_channel", "add_reaction",
            "remove_reaction"}

BotOps == HttpOps \cup {"add_multiple_reactions", "list_channels"}

\* None as the value of an optional integer argument.
NoneId == -1

\* The arguments a DiscordMCP method is called with, already coerced.
NoArgs == [channel_id |-> 0, message_id |-> 0, user_id |-> 0, server_id |-> 0,
           category_id |-> NoneId, limit |-> 0, content |-> <<>>,
           name |-> <<>>, emoji |-> <<>>, emojis |-> <<>>]

(***************************************************************************)
(* The discord client (external).  Its cache can hold an entity only once  *)
(* the session has been ready; a platform call can succeed only while the  *)
(* client holds an open HTTP session.  "failed" is a connection attempt    *)
(* that ended before the session was ever ready.                           *)
(***************************************************************************)
ConnStates == {"new", "connecting", "ready", "degraded", "closed", "failed"}

CanFind(c) == c \in {"ready", "degraded", "closed"}

Outcomes == {"ok", "NotFound", "Forbidden", "fail"}

CanReturn(c, outcome) == outcome = "ok" => c \in {"connecting", "ready", "degraded"}

\* Ids the platform gives to what it creates.
NewIds == {101, 102}

(***************************************************************************)
(* DiscordMCP methods (main.py:54-263).  BotInvoke is the method up to its *)
(* first await of a platform call: `found` is what the cache lookup        *)
(* (get_channel, get_user, get_guild, guilds) returned.  It yields either  *)
(* the method's return value or the platform call it now awaits.           *)
(***************************************************************************)
Return(body) == [done |-> TRUE, body |-> body, stage |-> "none"]
Await(stage) == [done |-> FALSE, body |-> Obj([none |-> TRUE]), stage |-> stage]

UserInfo(id) ==
    Obj([id |-> id, name |-> "user", discriminator |-> "0", bot |-> FALSE,
         created_at |-> "2020-01-01T00:00:00"])

ServerInfo ==
    [id |-> 3, name |-> "guild", member_count |-> 2, owner_id |-> 7,
     created_at |-> "2020-01-01T00:00:00"]

ChannelInfo ==
    [id |-> 7, name |-> "general", type |-> "text", category_id |-> NoneId]

MessageInfo ==
    [id |-> 8, author |-> "user", content |-> "hello",
     timestamp |-> "2020-01-01T00:00:00", reactions |-> <<>>]

BotInvoke(op, a, found) ==
    CASE op = "send_message" ->
           IF found THEN Await("send")
           ELSE Return(StatusErrBody("Channel not found"))
      [] op = "read_messages" ->
           IF found THEN Await("history")
           ELSE Return(ErrBody("Channel not found"))
      [] op = "get_user_info" ->
           IF found THEN Return(UserInfo(a.user_id))
           ELSE Return(ErrBody("User not found"))
      [] op = "list_servers" ->
           Return(Arr(IF found THEN <<ServerInfo>> ELSE <<>>))
      [] op = "create_text_channel" ->
           IF found THEN Await("create_text_channel")
           ELSE Return(ErrBody("Server not found"))
      [] op = "delete_channel" ->
           IF found THEN Await("delete")
           ELSE Return(ErrBody("Channel not found"))
      [] op \in {"add_reaction", "add_multiple_reactions", "remove_reaction"} ->
           IF found THEN Await("fetch_message")
           ELSE Return(ErrBody("Channel not found"))
      [] op = "list_channels" ->
           IF found THEN Return(Arr(<<ChannelInfo>>))
           ELSE Return(ErrBody("Server not found"))

\* The except clauses of a method: what it returns when the platform call it
\* awaits raises.  Only the reaction methods have a discord.NotFound clause;
\* send_message reports in the {status, message} shape.
SendMessageFailure(outcome, text) ==
    CASE outcome = "Forbidden" -> StatusErrBody("Permission denied")
      [] outcome = "NotFound" -> StatusErrBody(NotFoundText)
      [] outcome = "fail" -> StatusErrBody(text)

\* A variant whose except clauses are missing: the failure of the platform
\* call leaves the method as an exception; C14 tells it from the methods.
Reraise(op, outcome, text) ==
    [json |-> "exception", o |-> [text |-> text], items |-> <<>>]

BotFailure(op, outcome, text) ==
    CASE op = "send_message" -> SendMessageFailure(outcome, text)
      [] op # "send_message" /\ outcome = "Forbidden" ->
           ErrBody("Permission denied")
      [] op # "send_message" /\ outcome = "NotFound" ->
           IF op \in {"add_reaction", "add_multiple_reactions", "remove_reaction"}
           THEN ErrBody("Message not found")
           ELSE ErrBody(NotFoundText)
      [] op # "send_message" /\ outcome = "fail" -> ErrBody(text)

\* A variant that reports an id of its own; C17 tells it from send_message.
StaleMessageId(id) ==
    Obj([status |-> "success", message |-> "Message sent",
         message_id |-> CHOOSE x \in NewIds : TRUE])

\* What send_message returns for the message the platform created.
SendResult(id) ==
    Obj([status |-> "success", message |-> "Message sent", message_id |-> id])

\* The method after the platform call `stage` returned normally: `left` is
\* the number of emojis add_multiple_reactions has still to add, `id` the id
\* the platform gave, `n` the number of messages history yielded.
BotProceed(op, a, stage, left, id, n) ==
    CASE stage = "send" -> Return(SendResult(id))
      [] stage = "history" ->
           Return(Obj([messages |-> [i \in 1..n |-> MessageInfo]]))
      [] stage = "create_text_channel" ->
           Return(Obj([id |-> id, name |-> a.name, topic |-> "none",
                       category_id |-> a.category_id]))
      [] stage = "delete" -> Return(Obj([status |-> "success"]))
      [] stage = "fetch_message" ->
           IF op = "remove_reaction" THEN Await("remove_reaction")
           ELSE IF op = "add_multiple_reactions" /\ left = 0
           THEN Return(Obj([status |-> "success"]))
           ELSE Await("add_reaction")
      [] stage = "add_reaction" ->
           IF op = "add_multiple_reactions" /\ left > 0
           THEN Await("add_reaction")
           ELSE Return(Obj([status |-> "success"]))
      [] stage = "remove_reaction" -> Return(Obj([status |-> "success"]))

(***************************************************************************)
(* What the last step sent and asked of the platform.                      *)
(***************************************************************************)
NoResp == [transport |-> "none"]
NoCall == [kind |-> "none"]
NoLaunch == [transport |-> "none", on |-> "none", at |-> "none"]

Idle == [busy |-> FALSE]

\* A coroutine suspended in a DiscordMCP method, awaiting platform call
\* `stage` on handle h; calls is the number of platform calls it has issued
\* so far, notes the notifications it has emitted.
Pending(transport, op, req, h, a, stage, left, calls, notes) ==
    [busy |-> TRUE, transport |-> transport, op |-> op, req |-> req,
     h |-> h, a |-> a, stage |-> stage, left |-> left, calls |-> calls,
     notes |-> notes]

\* A reply: c is the WebSocket connection it is sent on (0 otherwise), after
\* what the previous reply on that connection was, status the HTTP status
\* (0 on the other transports), h the handle the dispatch ran on (0: none),
\* last how the last platform call of the dispatch ended.
NoAnswer == [outcome |-> "none", text |-> "", id |-> 0]

Reply(transport, c, after, op, req, status, body, h, calls, notes) ==
    [transport |-> transport, c |-> c, after |-> after, op |-> op,
     req |-> req, status |-> status, body |-> body, h |-> h,
     calls |-> calls, notes |-> notes, last |-> NoAnswer]

\* The reply of a dispatch whose last platform call ended with `outcome`:
\* text is the str(e) of a failure, id the id the platform gave.
Answered(r, outcome, text, id) ==
    [r EXCEPT !.last =
        [outcome |-> outcome,
         text |-> CASE outcome = "ok" -> ""
                    [] outcome = "NotFound" -> NotFoundText
                    [] outcome = "Forbidden" -> ForbiddenText
                    [] outcome = "fail" -> text,
         id |-> id]]

\* A platform call: h the handle it is made on, conn the connection state of
\* h when it is made, a the arguments, req the request it is made for.
PlatformCall(stage, h, c, a, req) ==
    [kind |-> stage, h |-> h, conn |-> c, a |-> a, req |-> req]

(***************************************************************************)
(* HTTP handlers (http_mcp_server.py:44-257).                              *)
(***************************************************************************)
\* A request body: not JSON at all, JSON that is no object, or an object.
NotJson == [kind |-> "notjson", data |-> EmptyObject, a |-> NoArgs]
NonObject == [kind |-> "nonobject", data |-> EmptyObject, a |-> NoArgs]
Object(data) == [kind |-> "object", data |-> data, a |-> NoArgs]
NoBody == [kind |-> "none", data |-> EmptyObject, a |-> NoArgs]

\* The parameters each handler requires, in the order it tests them.
HttpRequired(op) ==
    CASE op = "send_message" -> <<"channel_id", "content">>
      [] op = "read_messages" -> <<"channel_id">>
      [] op = "get_user_info" -> <<"user_id">>
      [] op = "list_servers" -> <<>>
      [] op = "create_text_channel" -> <<"server_id", "name">>
      [] op = "delete_channel" -> <<"channel_id">>
      [] op \in {"add_reaction", "remove_reaction"} ->
           <<"channel_id", "message_id", "emoji">>

RequiredText(op) ==
    CASE op = "send_message" -> "channel_id and content are required"
      [] op = "read_messages" -> "channel_id is required"
      [] op = "get_user_info" -> "user_id is required"
      [] op = "list_servers" -> "nothing is required"
      [] op = "create_text_channel" -> "server_id and name are required"
      [] op = "delete_channel" -> "channel_id is required"
      [] op \in {"add_reaction", "remove_reaction"} ->
           "channel_id, message_id, and emoji are required"

\* A variant that asks only that each required parameter is given; C32
\* tells it from the handlers' test of truthiness.
HttpRequiredGiven(op, data) ==
    \A i \in 1..Len(HttpRequired(op)) : data[HttpRequired(op)[i]].t # "absent"

\* `if not a or not b`: every required parameter is truthy.
\* A variant that tests only the first required parameter; C2 tells it from
\* the handlers' test.
HttpRequiredFirstOnly(op, data) ==
    Len(HttpRequired(op)) = 0 \/ Truthy(Get(data, HttpRequired(op)[1]))

HttpRequiredOk(op, data) ==
    \A i \in 1..Len(HttpRequired(op)) : Truthy(Get(data, HttpRequired(op)[i]))

\* `if not self.discord_mcp or not self.discord_mcp.bot`: "closed" when the
\* handler answers that the bot is not initialized, "raise" when reading
\* the attribute raises, "open" when the handler goes on.
HttpGate(dm, attr) ==
    IF dm = 0 THEN "closed"
    ELSE IF attr = "missing" THEN "raise"
    ELSE IF attr = "falsy" THEN "closed"
    ELSE "open"

\* What limit the handler reads: data.get("limit", 10).
HttpLimit(data) == GetDefault(data, "limit", JInt(DefaultLimit))

\* The values the handler passes through int(), in evaluation order.
HttpCoerced(op, data) ==
    CASE op = "send_message" -> <<Get(data, "channel_id")>>
      [] op = "read_messages" -> <<Get(data, "channel_id"), HttpLimit(data)>>
      [] op = "get_user_info" -> <<Get(data, "user_id")>>
      [] op = "list_servers" -> <<>>
      [] op = "create_text_channel" ->
           IF Truthy(Get(data, "category_id"))
           THEN <<Get(data, "server_id"), Get(data, "category_id")>>
           ELSE <<Get(data, "server_id")>>
      [] op = "delete_channel" -> <<Get(data, "channel_id")>>
      [] op \in {"add_reaction", "remove_reaction"} ->
           <<Get(data, "channel_id"), Get(data, "message_id")>>

CoerceOk(vals) == \A i \in 1..Len(vals) : IntOk(vals[i])

\* str(e) of the first int() that raises.
CoerceError(vals) ==
    LET bad == {i \in 1..Len(vals) : ~IntOk(vals[i])}
        first == CHOOSE i \in bad : \A j \in bad : i <= j
    IN IntError(vals[first])

\* The limit handed to DiscordMCP.read_messages: int(limit), as it is.
HttpLimitArg(data) == IntOf(HttpLimit(data))

\* The arguments of the DiscordMCP method call.
HttpArgs(op, data) ==
    CASE op = "send_message" ->
           [NoArgs EXCEPT !.channel_id = IntOf(Get(data, "channel_id")),
                          !.content = Get(data, "content").s]
      [] op = "read_messages" ->
           [NoArgs EXCEPT !.channel_id = IntOf(Get(data, "channel_id")),
                          !.limit = HttpLimitArg(data)]
      [] op = "get_user_info" ->
           [NoArgs EXCEPT !.user_id = IntOf(Get(data, "user_id"))]
      [] op = "list_servers" -> NoArgs
      [] op = "create_text_channel" ->
           [NoArgs EXCEPT !.server_id = IntOf(Get(data, "server_id")),
                          !.name = Get(data, "name").s,
                          !.category_id =
                              IF Truthy(Get(data, "category_id"))
                              THEN IntOf(Get(data, "category_id"))
                              ELSE NoneId]
      [] op = "delete_channel" ->
           [NoArgs EXCEPT !.channel_id = IntOf(Get(data, "channel_id"))]
      [] op \in {"add_reaction", "remove_reaction"} ->
           [NoArgs EXCEPT !.channel_id = IntOf(Get(data, "channel_id")),
                          !.message_id = IntOf(Get(data, "message_id")),
                          !.emoji = Get(data, "emoji").s]

\* The status of the reply that carries a DiscordMCP method's return value:
\* web.json_response(result), whatever the result says.
HttpResultStatus(body) == StatusOK

\* The status of the reply of the handler's `except Exception` clause.
HttpExceptionStatus == StatusServerError

\* The handler up to the call of the DiscordMCP method: the reply it sends
\* without calling it, or "invoke".
HttpPrefix(op, body, dm, attr) ==
    IF op # "list_servers" /\ body.kind = "notjson"
    THEN [to |-> "reply", status |-> StatusBadRequest, body |-> ErrBody(InvalidJSON)]
    ELSE IF op # "list_servers" /\ body.kind = "nonobject"
    THEN [to |-> "reply", status |-> HttpExceptionStatus, body |-> ErrBody(NoGetAttribute)]
    ELSE IF ~HttpRequiredOk(op, body.data)
    THEN [to |-> "reply", status |-> StatusBadRequest, body |-> ErrBody(RequiredText(op))]
    ELSE IF HttpGate(dm, attr) = "closed"
    THEN [to |-> "reply", status |-> StatusServerError, body |-> ErrBody(NotInitialized)]
    ELSE IF HttpGate(dm, attr) = "raise"
    THEN [to |-> "reply", status |-> HttpExceptionStatus, body |-> ErrBody(NoBotAttribute)]
    ELSE IF ~CoerceOk(HttpCoerced(op, body.data))
    THEN [to |-> "reply", status |-> HttpExceptionStatus,
          body |-> ErrBody(CoerceError(HttpCoerced(op, body.data)))]
    ELSE [to |-> "invoke", status |-> 0, body |-> Obj([none |-> TRUE])]

(***************************************************************************)
(* The requests a caller can send.                                         *)
(***************************************************************************)
IdVals == {Absent, JNull, JFalse, JInt(0), JStr(<<>>), JStr(<<"7">>),
           JStr(<<"x">>)}
MessageIdVals == {Absent, JInt(8), JStr(<<"x">>)}
TextVals == {Absent, JStr(<<>>), JStr(<<"h", "i">>)}
NameVals == {Absent, JStr(<<"n">>)}
EmojiVals == {Absent, JStr(<<"+">>)}
LimitVals == {Absent, JNull, JInt(0), JInt(500), JStr(<<"x">>)}
CategoryVals == {Absent, JInt(0), JStr(<<>>), JInt(5), JStr(<<"x">>)}

Params(op) ==
    CASE op = "send_message" ->
           {[EmptyObject EXCEPT !["channel_id"] = ch, !["content"] = tx] :
                ch \in IdVals, tx \in TextVals}
      [] op = "read_messages" ->
           {[EmptyObject EXCEPT !["channel_id"] = ch, !["limit"] = lm] :
                ch \in IdVals, lm \in LimitVals}
      [] op = "get_user_info" ->
           {[EmptyObject EXCEPT !["user_id"] = u] : u \in IdVals}
      [] op = "list_servers" -> {EmptyObject}
      [] op = "create_text_channel" ->
           {[EmptyObject EXCEPT !["server_id"] = sv, !["name"] = tx,
                                !["category_id"] = cat] :
                sv \in IdVals, tx \in NameVals, cat \in CategoryVals}
      [] op = "delete_channel" ->
           {[EmptyObject EXCEPT !["channel_id"] = ch] : ch \in IdVals}
      [] op \in {"add_reaction", "remove_reaction"} ->
           {[EmptyObject EXCEPT !["channel_id"] = ch, !["message_id"] = m,
                                !["emoji"] = e] :
                ch \in IdVals, m \in MessageIdVals, e \in EmojiVals}

HttpBodies(op) == {NotJson, NonObject} \cup {Object(d) : d \in Params(op)}

(***************************************************************************)
(* Start-up.                                                               *)
(***************************************************************************)
Entries == {"run_server", "run_server_ws", "start_server", "rpc"}

Init ==
    /\ entry \in Entries
    /\ pc = "start"
    /\ botAttr \in {"missing", "falsy", "truthy"}
    /\ entry = "rpc" => botAttr = "missing"
    /\ discord_mcp = 0
    /\ bot_instance = 0
    /\ conn = [h \in Handles |-> "new"]
    /\ starts = 0
    /\ http = [i \in 1..MaxInflight |-> Idle]
    /\ ws = [c \in 1..MaxConns |-> [open |-> FALSE, cur |-> Idle, prev |-> "none"]]
    /\ rpc = [i \in 1..MaxInflight |-> Idle]
    /\ resp = NoResp
    /\ call = NoCall
    /\ launch = NoLaunch

\* Nothing of the last step is still on its way out.
Settled == resp = NoResp /\ call = NoCall /\ launch = NoLaunch

Quiet == resp' = NoResp /\ call' = NoCall /\ launch' = NoLaunch

\* The reply and the platform call of the last step have left the process.
Deliver ==
    /\ ~Settled
    /\ Quiet
    /\ UNCHANGED <<entry, pc, botAttr, discord_mcp, bot_instance, conn,
                   starts, http, ws, rpc>>

\* The handle start_discord_bot constructs: `self.discord_mcp = DiscordMCP()`
\* is a new object each time it runs.
NewHandle(dm) == IF dm = 0 THEN 1 ELSE 2

\* start_server.main, lines 13-23: the bot object is constructed, published
\* to the HTTP server and its connection is started in a task; start()
\* either returns the coroutine of the connection or raises.
MainCreateAndStart(raised) ==
    /\ entry = "start_server" /\ pc = "start"
    /\ discord_mcp' = 1
    /\ IF raised
       THEN /\ pc' = "exited"
            /\ UNCHANGED <<conn, starts>>
       ELSE /\ pc' = "sleep1"
            /\ conn' = [conn EXCEPT ![1] = "connecting"]
            /\ starts' = starts + 1
    /\ Quiet
    /\ UNCHANGED <<entry, botAttr, bot_instance, http, ws, rpc>>

\* StreamableHTTPMCP.initialize -> start_discord_bot, lines 259-266.
Initialize(raised) ==
    /\ \/ entry = "start_server" /\ pc = "sleep1"
       \/ entry \in {"run_server", "run_server_ws"} /\ pc = "start"
    /\ discord_mcp' = NewHandle(discord_mcp)
    /\ IF raised
       THEN /\ pc' = "exited"
            /\ UNCHANGED <<conn, starts>>
       ELSE /\ pc' = "sleep2"
            /\ conn' = [conn EXCEPT ![NewHandle(discord_mcp)] = "connecting"]
            /\ starts' = starts + 1
    /\ Quiet
    /\ UNCHANGED <<entry, botAttr, bot_instance, http, ws, rpc>>

\* server.run(): the HTTP server starts to serve.
Run ==
    /\ entry # "rpc" /\ pc = "sleep2"
    /\ pc' = "serving"
    /\ Quiet
    /\ UNCHANGED <<entry, botAttr, discord_mcp, bot_instance, conn, starts,
                   http, ws, rpc>>

\* os.getenv("DISCORD_TOKEN"): unset, empty, the placeholder of the sample
\* .env file, or a token.
Tokens == {"unset", "empty", "placeholder", "token"}

\* `not discord_token or discord_token == "your_discord_bot_token_here"`.
ValidToken(token) == token \notin {"unset", "empty", "placeholder"}

\* The choices of --transport, main.py:614.
Transports == {"stdio", "http", "streamable-http", "sse"}

\* main.main, lines 634-646: the transport the RPC server is started on.
Serve(transport) ==
    IF transport = "sse"
    THEN [transport |-> transport, on |-> "http", at |-> "host:port/path"]
    ELSE [transport |-> transport, on |-> "stdio", at |-> "none"]

\* main.main, lines 621-646: without a valid token no bot is made; with one
\* the bot is made and run, and the RPC server then serves on the transport
\* chosen.
RpcMain(token, transport, raised) ==
    /\ entry = "rpc" /\ pc = "start"
    /\ IF ~ValidToken(token)
       THEN /\ ~raised
            /\ pc' = "serving"
            /\ UNCHANGED <<bot_instance, conn, starts>>
       ELSE /\ bot_instance' = 1
            /\ IF raised
               THEN /\ pc' = "exited"
                    /\ UNCHANGED <<conn, starts>>
               ELSE /\ pc' = "serving"
                    /\ conn' = [conn EXCEPT ![1] = "connecting"]
                    /\ starts' = starts + 1
    /\ resp' = NoResp /\ call' = NoCall
    /\ launch' = IF pc' = "serving" THEN Serve(transport) ELSE NoLaunch
    /\ UNCHANGED <<entry, botAttr, discord_mcp, http, ws, rpc>>

\* KeyboardInterrupt: main.main closes the bot (lines 648-651), the HTTP
\* entry points only log.
Interrupt ==
    /\ Settled
    /\ pc \in {"sleep1", "sleep2", "serving"}
    /\ pc' = "exited"
    /\ conn' = IF entry = "rpc" /\ bot_instance # 0
               THEN [conn EXCEPT ![bot_instance] = "closed"]
               ELSE conn
    /\ Quiet
    /\ UNCHANGED <<entry, botAttr, discord_mcp, bot_instance, starts, http,
                   ws, rpc>>

(***************************************************************************)
(* The session as the discord client drives it (on_ready, main.py:34-38,   *)
(* and the connection the Bot base class keeps).                           *)
(***************************************************************************)
Running == Settled /\ pc \in {"sleep1", "sleep2", "serving"}

OnReady(h) ==
    /\ Running /\ conn[h] = "connecting"
    /\ conn' = [conn EXCEPT ![h] = "ready"]
    /\ Quiet
    /\ UNCHANGED <<entry, pc, botAttr, discord_mcp, bot_instance, starts,
                   http, ws, rpc>>

Disconnect(h) ==
    /\ Running /\ conn[h] = "ready"
    /\ conn' = [conn EXCEPT ![h] = "degraded"]
    /\ Quiet
    /\ UNCHANGED <<entry, pc, botAttr, discord_mcp, bot_instance, starts,
                   http, ws, rpc>>

Resume(h) ==
    /\ Running /\ conn[h] = "degraded"
    /\ conn' = [conn EXCEPT ![h] = "ready"]
    /\ Quiet
    /\ UNCHANGED <<entry, pc, botAttr, discord_mcp, bot_instance, starts,
                   http, ws, rpc>>

\* The connection task ends: a failed login, or a fatal gateway error.
ConnectionLost(h) ==
    /\ Running /\ conn[h] \in {"connecting", "ready", "degraded"}
    /\ conn' = [conn EXCEPT ![h] =
                   IF conn[h] = "connecting" THEN "failed" ELSE "closed"]
    /\ Quiet
    /\ UNCHANGED <<entry, pc, botAttr, discord_mcp, bot_instance, starts,
                   http, ws, rpc>>

(***************************************************************************)
(* Dispatch shared by the adapters.                                        *)
(***************************************************************************)
Busy(f) == {i \in DOMAIN f : f[i] # Idle}

InFlight ==
    Cardinality(Busy(http)) + Cardinality(Busy(rpc))
    + Cardinality({c \in DOMAIN ws : ws[c].cur # Idle})

\* One more request may be handled beside those suspended.
Capacity == InFlight < MaxInflight

\* Slot i is the first free one.
FreeSlot(f, i) ==
    /\ f[i] = Idle
    /\ \A j \in 1..(i - 1) : f[j] # Idle

EmojiCount(op, a) == IF op = "add_multiple_reactions" THEN Len(a.emojis) ELSE 0

\* A variant of the methods that asks again for a platform call that failed;
\* C27 tells it from the methods, whose except clauses return.
BotStepRetry(p, outcome, text, id, n) ==
    IF outcome = "ok"
    THEN BotProceed(p.op, p.a, p.stage, p.left, id, n)
    ELSE Await(p.stage)

\* What a suspended DiscordMCP method does when the platform call it awaits
\* ends with `outcome`: its return value, or the next call it awaits.
BotStep(p, outcome, text, id, n) ==
    IF outcome = "ok"
    THEN BotProceed(p.op, p.a, p.stage, p.left, id, n)
    ELSE Return(BotFailure(p.op, outcome, text))

LeftAfter(p, m) ==
    IF ~m.done /\ m.stage = "add_reaction" /\ p.op = "add_multiple_reactions"
    THEN p.left - 1 ELSE p.left

\* The number of messages history yields: never more than the limit asked.
HistoryCounts(p) == {n \in 0..1 : p.stage = "history" => n <= p.a.limit}

\* The choices of the environment that matter at the end of platform call
\* `stage`; the others are fixed so that no step is taken twice.
Relevant(p, outcome, text, id, n) ==
    /\ CanReturn(conn[p.h], outcome)
    /\ n \in HistoryCounts(p)
    /\ (outcome # "fail") => text = CHOOSE t \in FailTexts : TRUE
    /\ (outcome # "ok" \/ p.stage \notin {"send", "create_text_channel"})
          => id = CHOOSE x \in NewIds : TRUE
    /\ (outcome # "ok" \/ p.stage # "history") => n = 0

(***************************************************************************)
(* HTTP requests.                                                          *)
(***************************************************************************)
\* A variant that answers 500 unless the bot is ready; C6 tells it from
\* health_check.
HealthReplyWhenReady ==
    [status |-> IF discord_mcp # 0 /\ conn[discord_mcp] = "ready"
                THEN StatusOK ELSE StatusServerError,
     body |-> Obj([status |-> "healthy", service |-> "discord-mcp-http"])]

\* health_check, lines 40-42.
HealthReply ==
    [status |-> StatusOK,
     body |-> Obj([status |-> "healthy", service |-> "discord-mcp-http"])]

\* GET /health.
HealthCheck ==
    /\ Settled /\ pc = "serving" /\ entry # "rpc"
    /\ Capacity
    /\ resp' = Reply("http", 0, "none", "health", NoBody, HealthReply.status,
                     HealthReply.body, 0, 0, <<>>)
    /\ call' = NoCall
    /\ UNCHANGED <<launch, entry, pc, botAttr, discord_mcp, bot_instance, conn,
                   starts, http, ws, rpc>>

\* The handler of one HTTP request, run to its reply or to the first await
\* of a platform call.
HttpHandle(i, op, body, found) ==
    /\ LET pre == HttpPrefix(op, body, discord_mcp, botAttr)
           h == discord_mcp
           a == HttpArgs(op, body.data)
           m == BotInvoke(op, a, found)
       IN IF pre.to = "reply"
          THEN /\ ~found /\ i = 1
               /\ resp' = Reply("http", 0, "none", op, body, pre.status,
                                pre.body, 0, 0, <<>>)
               /\ call' = NoCall
               /\ UNCHANGED http
          ELSE /\ found => CanFind(conn[h])
               /\ IF m.done
                  THEN /\ i = 1
                       /\ resp' = Reply("http", 0, "none", op, body,
                                        HttpResultStatus(m.body), m.body, h,
                                        0, <<>>)
                       /\ call' = NoCall
                       /\ UNCHANGED http
                  ELSE /\ FreeSlot(http, i)
                       /\ resp' = NoResp
                       /\ call' = PlatformCall(m.stage, h, conn[h], a, body)
                       /\ http' = [http EXCEPT ![i] =
                              Pending("http", op, body, h, a, m.stage,
                                      EmojiCount(op, a), 1, <<>>)]
    /\ UNCHANGED <<launch, entry, pc, botAttr, discord_mcp, bot_instance, conn,
                   starts, ws, rpc>>

\* An HTTP request arrives.
HttpRequest ==
    /\ Settled /\ pc = "serving" /\ entry # "rpc"
    /\ Capacity
    /\ \E i \in 1..MaxInflight, op \in HttpOps, found \in BOOLEAN :
          \E body \in HttpBodies(op) : HttpHandle(i, op, body, found)

\* The platform call an HTTP handler awaits ends.
HttpResume(i, outcome, text, id, n) ==
    /\ Relevant(http[i], outcome, text, id, n)
    /\ LET p == http[i]
           m == BotStep(p, outcome, text, id, n)
       IN IF m.done
          THEN /\ resp' = Answered(Reply("http", 0, "none", p.op, p.req,
                                         HttpResultStatus(m.body), m.body,
                                         p.h, p.calls, <<>>),
                                   outcome, text, id)
               /\ call' = NoCall
               /\ http' = [http EXCEPT ![i] = Idle]
          ELSE /\ resp' = NoResp
               /\ call' = PlatformCall(m.stage, p.h, conn[p.h], p.a, p.req)
               /\ http' = [http EXCEPT ![i] =
                      [p EXCEPT !.stage = m.stage, !.left = LeftAfter(p, m),
                                !.calls = p.calls + 1]]
    /\ UNCHANGED <<launch, entry, pc, botAttr, discord_mcp, bot_instance, conn,
                   starts, ws, rpc>>

HttpFacadeReturn(i) ==
    /\ Settled /\ pc = "serving"
    /\ http[i] # Idle /\ http[i].stage # "body"
    /\ \E outcome \in Outcomes, text \in FailTexts, id \in NewIds, n \in 0..1 :
          HttpResume(i, outcome, text, id, n)

\* A handler suspended in `data = await request.json()`: the request line
\* and headers are in, the body is still on its way.
Reading(op) == Pending("http", op, NoBody, 0, NoArgs, "body", 0, 0, <<>>)

\* The handlers that read a body (handle_list_servers reads none).
BodyOps == HttpOps \ {"list_servers"}

\* An HTTP request arrives ahead of its body.
HttpReceive(i, op) ==
    /\ Settled /\ pc = "serving" /\ entry # "rpc"
    /\ Capacity
    /\ FreeSlot(http, i)
    /\ http' = [http EXCEPT ![i] = Reading(op)]
    /\ Quiet
    /\ UNCHANGED <<entry, pc, botAttr, discord_mcp, bot_instance, conn,
                   starts, ws, rpc>>

\* The body is in: the handler goes on as HttpHandle does, from its slot.
HttpBody(i) ==
    /\ Settled /\ pc = "serving"
    /\ http[i] # Idle /\ http[i].stage = "body"
    /\ \E found \in BOOLEAN : \E body \in HttpBodies(http[i].op) :
          LET op == http[i].op
              pre == HttpPrefix(op, body, discord_mcp, botAttr)
              h == discord_mcp
              a == HttpArgs(op, body.data)
              m == BotInvoke(op, a, found)
          IN IF pre.to = "reply"
             THEN /\ ~found
                  /\ resp' = Reply("http", 0, "none", op, body, pre.status,
                                   pre.body, 0, 0, <<>>)
                  /\ call' = NoCall
                  /\ http' = [http EXCEPT ![i] = Idle]
             ELSE /\ found => CanFind(conn[h])
                  /\ IF m.done
                     THEN /\ resp' = Reply("http", 0, "none", op, body,
                                           HttpResultStatus(m.body), m.body,
                                           h, 0, <<>>)
                          /\ call' = NoCall
                          /\ http' = [http EXCEPT ![i] = Idle]
                     ELSE /\ resp' = NoResp
                          /\ call' = PlatformCall(m.stage, h, conn[h], a, body)
                          /\ http' = [http EXCEPT ![i] =
                                 Pending("http", op, body, h, a, m.stage,
                                         EmojiCount(op, a), 1, <<>>)]
    /\ UNCHANGED <<launch, entry, pc, botAttr, discord_mcp, bot_instance, conn,
                   starts, ws, rpc>>

\* What the cancellation of a handler does to the platform call it awaits:
\* CancelledError is thrown into it (no handler and no method catches it:
\* their clauses are `except Exception`).
Cancelled(p) ==
    IF p.stage = "body" THEN NoCall
    ELSE PlatformCall("cancel", p.h, conn[p.h], p.a, p.req)

\* A variant whose cancellation drops the published bot; C28 tells it from
\* the handlers, which write no field of the server.
HttpCancelDropsBot(i) ==
    /\ Settled /\ pc = "serving"
    /\ http[i] # Idle
    /\ http' = [http EXCEPT ![i] = Idle]
    /\ discord_mcp' = 0
    /\ resp' = NoResp
    /\ call' = Cancelled(http[i])
    /\ UNCHANGED <<launch, entry, pc, botAttr, bot_instance, conn, starts, ws, rpc>>

\* The caller disconnects and the handler's task is cancelled at the await
\* it is suspended in: nothing is replied.
HttpCancel(i) ==
    /\ Settled /\ pc = "serving"
    /\ http[i] # Idle
    /\ http' = [http EXCEPT ![i] = Idle]
    /\ resp' = NoResp
    /\ call' = Cancelled(http[i])
    /\ UNCHANGED <<launch, entry, pc, botAttr, discord_mcp, bot_instance, conn,
                   starts, ws, rpc>>

(***************************************************************************)
(* WebSocket handler (http_mcp_server.py:289-406).                         *)
(***************************************************************************)
\* A JSON string that is compared as a whole (an action name).
Name(x) == JStr(<<x>>)

\* The actions websocket_handler recognizes, lines 303-318.
WsActions == {"send_message", "read_messages", "get_user_info",
              "list_servers", "create_text_channel", "delete_channel",
              "add_reaction", "remove_reaction"}

WsKnown(action) ==
    action.t = "str" /\ Len(action.s) = 1 /\ action.s[1] \in WsActions

UnknownAction(action) == Obj([error |-> "Unknown action", action |-> action])

\* The parameters each *_via_ws handler requires, in the order it tests them.
WsRequired(op) ==
    CASE op = "send_message" -> <<"channel_id", "content">>
      [] op = "read_messages" -> <<"channel_id">>
      [] op = "get_user_info" -> <<"user_id">>
      [] op = "list_servers" -> <<>>
      [] op = "create_text_channel" -> <<"server_id", "name">>
      [] op = "delete_channel" -> <<"channel_id">>
      [] op \in {"add_reaction", "remove_reaction"} ->
           <<"channel_id", "message_id", "emoji">>

WsRequiredOk(op, data) ==
    \A i \in 1..Len(WsRequired(op)) : Truthy(Get(data, WsRequired(op)[i]))

\* A variant that tests only that a bot is published; C31 tells it from
\* the *_via_ws handlers, which test as the HTTP handlers do.
WsGateHandleOnly(dm, attr) == IF dm = 0 THEN "closed" ELSE "open"

WsGate(dm, attr) ==
    IF dm = 0 THEN "closed"
    ELSE IF attr = "missing" THEN "raise"
    ELSE IF attr = "falsy" THEN "closed"
    ELSE "open"

WsLimit(data) == GetDefault(data, "limit", JInt(DefaultLimit))

WsCoerced(op, data) ==
    CASE op = "send_message" -> <<Get(data, "channel_id")>>
      [] op = "read_messages" -> <<Get(data, "channel_id"), WsLimit(data)>>
      [] op = "get_user_info" -> <<Get(data, "user_id")>>
      [] op = "list_servers" -> <<>>
      [] op = "create_text_channel" ->
           IF Truthy(Get(data, "category_id"))
           THEN <<Get(data, "server_id"), Get(data, "category_id")>>
           ELSE <<Get(data, "server_id")>>
      [] op = "delete_channel" -> <<Get(data, "channel_id")>>
      [] op \in {"add_reaction", "remove_reaction"} ->
           <<Get(data, "channel_id"), Get(data, "message_id")>>

\* The limit handed to DiscordMCP.read_messages: int(limit), as it is.
WsLimitArg(data) == IntOf(WsLimit(data))

WsArgs(op, data) ==
    CASE op = "send_message" ->
           [NoArgs EXCEPT !.channel_id = IntOf(Get(data, "channel_id")),
                          !.content = Get(data, "content").s]
      [] op = "read_messages" ->
           [NoArgs EXCEPT !.channel_id = IntOf(Get(data, "channel_id")),
                          !.limit = WsLimitArg(data)]
      [] op = "get_user_info" ->
           [NoArgs EXCEPT !.user_id = IntOf(Get(data, "user_id"))]
      [] op = "list_servers" -> NoArgs
      [] op = "create_text_channel" ->
           [NoArgs EXCEPT !.server_id = IntOf(Get(data, "server_id")),
                          !.name = Get(data, "name").s,
                          !.category_id =
                              IF Truthy(Get(data, "category_id"))
                              THEN IntOf(Get(data, "category_id"))
                              ELSE NoneId]
      [] op = "delete_channel" ->
           [NoArgs EXCEPT !.channel_id = IntOf(Get(data, "channel_id"))]
      [] op \in {"add_reaction", "remove_reaction"} ->
           [NoArgs EXCEPT !.channel_id = IntOf(Get(data, "channel_id")),
                          !.message_id = IntOf(Get(data, "message_id")),
                          !.emoji = Get(data, "emoji").s]

\* The operation a text message names ("none" when it names none).
WsOp(msg) ==
    IF msg.kind = "object" /\ WsKnown(Get(msg.data, "action"))
    THEN Get(msg.data, "action").s[1] ELSE "none"

\* websocket_handler on one text message, up to the call of the DiscordMCP
\* method: the reply it sends without calling it, or "invoke".
WsPrefix(msg, dm, attr) ==
    LET op == WsOp(msg) IN
    IF msg.kind = "notjson"
    THEN [to |-> "reply", body |-> ErrBody(InvalidJSON)]
    ELSE IF msg.kind = "nonobject"
    THEN [to |-> "reply", body |-> ErrBody(NoGetAttribute)]
    ELSE IF op = "none"
    THEN [to |-> "reply", body |-> UnknownAction(Get(msg.data, "action"))]
    ELSE IF ~WsRequiredOk(op, msg.data)
    THEN [to |-> "reply", body |-> ErrBody(RequiredText(op))]
    ELSE IF WsGate(dm, attr) = "closed"
    THEN [to |-> "reply", body |-> ErrBody(NotInitialized)]
    ELSE IF WsGate(dm, attr) = "raise"
    THEN [to |-> "reply", body |-> ErrBody(NoBotAttribute)]
    ELSE IF ~CoerceOk(WsCoerced(op, msg.data))
    THEN [to |-> "reply", body |-> ErrBody(CoerceError(WsCoerced(op, msg.data)))]
    ELSE [to |-> "invoke", body |-> Obj([none |-> TRUE])]

\* Variants that leave the receive loop after an unknown-action reply and
\* after an invalid-JSON reply; C7 and C8 tell them from websocket_handler.
ClosesOnUnknownAction(body) ==
    ~(body.json = "object" /\ "action" \in DOMAIN body.o)

ClosesOnInvalidJson(body) == body # ErrBody(InvalidJSON)

\* Whether the handler leaves its receive loop after replying: it goes on
\* to the next message after every reply.
WsStaysOpen(body) == TRUE

\* What the connection remembers of the reply it just sent.
WsKind(msg) ==
    IF msg.kind = "notjson" THEN "invalid"
    ELSE IF msg.kind = "object" /\ WsOp(msg) = "none" THEN "unknown"
    ELSE "none"

WsMessages ==
    {NotJson, NonObject}
    \cup UNION {{Object([d EXCEPT !["action"] = Name(op)]) : d \in Params(op)} :
                 op \in WsActions}
    \cup {Object([EmptyObject EXCEPT !["action"] = x]) :
            x \in {Absent, Name("frobnicate"), Name("add_multiple_reactions"),
                   Name("list_channels")}}

\* A peer opens a connection: ws.prepare(request), line 292.
WsConnect(c) ==
    /\ Settled /\ pc = "serving" /\ entry = "run_server_ws"
    /\ ~ws[c].open /\ ws[c].cur = Idle
    /\ \A d \in 1..(c - 1) : ws[d].open
    /\ ws' = [ws EXCEPT ![c] = [open |-> TRUE, cur |-> Idle, prev |-> "none"]]
    /\ Quiet
    /\ UNCHANGED <<entry, pc, botAttr, discord_mcp, bot_instance, conn,
                   starts, http, rpc>>

\* A variant in which the end of one connection ends them all; C18 tells it
\* from websocket_handler, whose loop owns one connection.
WsCloseAll(c) ==
    /\ Settled /\ pc = "serving"
    /\ ws[c].open
    /\ ws' = [d \in DOMAIN ws |-> [ws[d] EXCEPT !.open = FALSE]]
    /\ Quiet
    /\ UNCHANGED <<entry, pc, botAttr, discord_mcp, bot_instance, conn,
                   starts, http, rpc>>

\* The peer closes the connection; a dispatch in flight goes on to its end.
WsClose(c) ==
    /\ Settled /\ pc = "serving"
    /\ ws[c].open
    /\ ws' = [ws EXCEPT ![c].open = FALSE]
    /\ Quiet
    /\ UNCHANGED <<entry, pc, botAttr, discord_mcp, bot_instance, conn,
                   starts, http, rpc>>

\* websocket_handler on one text message, run to its reply or to the first
\* await of a platform call.
WsHandle(c, msg, found) ==
    /\ LET pre == WsPrefix(msg, discord_mcp, botAttr)
           op == WsOp(msg)
           h == discord_mcp
           a == WsArgs(op, msg.data)
           m == BotInvoke(op, a, found)
       IN IF pre.to = "reply"
          THEN /\ ~found
               /\ resp' = Reply("ws", c, ws[c].prev, op, msg, 0, pre.body, 0,
                                0, <<>>)
               /\ call' = NoCall
               /\ ws' = [ws EXCEPT ![c].prev = WsKind(msg),
                                   ![c].open = WsStaysOpen(pre.body)]
          ELSE /\ found => CanFind(conn[h])
               /\ IF m.done
                  THEN /\ resp' = Reply("ws", c, ws[c].prev, op, msg, 0,
                                        m.body, h, 0, <<>>)
                       /\ call' = NoCall
                       /\ ws' = [ws EXCEPT ![c].prev = "none",
                                           ![c].open = WsStaysOpen(m.body)]
                  ELSE /\ resp' = NoResp
                       /\ call' = PlatformCall(m.stage, h, conn[h], a, msg)
                       /\ ws' = [ws EXCEPT ![c].cur =
                              Pending("ws", op, msg, h, a, m.stage,
                                      EmojiCount(op, a), 1, <<>>)]
    /\ UNCHANGED <<launch, entry, pc, botAttr, discord_mcp, bot_instance, conn,
                   starts, http, rpc>>

\* A variant that takes the next message while the dispatch of the last one
\* is still awaited; C19 tells it from the handler's sequential loop.
WsMessageConcurrent(c) ==
    /\ Settled /\ pc = "serving"
    /\ ws[c].open
    /\ \E msg \in WsMessages, found \in BOOLEAN : WsHandle(c, msg, found)

\* The handler of connection c takes the next text message.
WsMessage(c) ==
    /\ Settled /\ pc = "serving"
    /\ ws[c].open /\ ws[c].cur = Idle
    /\ Capacity
    /\ \E msg \in WsMessages, found \in BOOLEAN : WsHandle(c, msg, found)

\* A variant that sends nothing when the method returns after a failed
\* platform call; C30 tells it from websocket_handler, which sends the
\* result whatever it is.
WsResumeSilentOnFailure(c, outcome, text, id, n) ==
    /\ Relevant(ws[c].cur, outcome, text, id, n)
    /\ LET p == ws[c].cur
           m == BotStep(p, outcome, text, id, n)
       IN IF m.done
          THEN /\ resp' = IF ws[c].open /\ outcome = "ok"
                          THEN Answered(Reply("ws", c, ws[c].prev, p.op,
                                              p.req, 0, m.body, p.h, p.calls,
                                              <<>>),
                                        outcome, text, id)
                          ELSE NoResp
               /\ call' = NoCall
               /\ ws' = [ws EXCEPT ![c].cur = Idle, ![c].prev = "none"]
          ELSE /\ resp' = NoResp
               /\ call' = PlatformCall(m.stage, p.h, conn[p.h], p.a, p.req)
               /\ ws' = [ws EXCEPT ![c].cur =
                      [p EXCEPT !.stage = m.stage, !.left = LeftAfter(p, m),
                                !.calls = p.calls + 1]]
    /\ UNCHANGED <<launch, entry, pc, botAttr, discord_mcp, bot_instance, conn,
                   starts, http, rpc>>

\* The platform call the handler of connection c awaits ends; the reply is
\* sent when the connection is still open.
WsResume(c, outcome, text, id, n) ==
    /\ Relevant(ws[c].cur, outcome, text, id, n)
    /\ LET p == ws[c].cur
           m == BotStep(p, outcome, text, id, n)
       IN IF m.done
          THEN /\ resp' = IF ws[c].open
                          THEN Answered(Reply("ws", c, ws[c].prev, p.op,
                                              p.req, 0, m.body, p.h, p.calls,
                                              <<>>),
                                        outcome, text, id)
                          ELSE NoResp
               /\ call' = NoCall
               /\ ws' = [ws EXCEPT ![c].cur = Idle, ![c].prev = "none",
                                   ![c].open = ws[c].open /\ WsStaysOpen(m.body)]
          ELSE /\ resp' = NoResp
               /\ call' = PlatformCall(m.stage, p.h, conn[p.h], p.a, p.req)
               /\ ws' = [ws EXCEPT ![c].cur =
                      [p EXCEPT !.stage = m.stage, !.left = LeftAfter(p, m),
                                !.calls = p.calls + 1]]
    /\ UNCHANGED <<launch, entry, pc, botAttr, discord_mcp, bot_instance, conn,
                   starts, http, rpc>>

WsFacadeReturn(c) ==
    /\ Settled /\ pc = "serving"
    /\ ws[c].cur # Idle
    /\ \E outcome \in Outcomes, text \in FailTexts, id \in NewIds, n \in 0..1 :
          WsResume(c, outcome, text, id, n)

(***************************************************************************)
(* RPC tools and resources (main.py:303-604).  The SDK hands each function *)
(* arguments of the declared types.                                        *)
(***************************************************************************)
\* Tools that call a DiscordMCP method between notifications.
NotifyingTools == {"create_text_channel", "delete_channel", "add_reaction",
                   "add_multiple_reactions", "remove_reaction"}

\* Tools that hold their own copy of the operation.
InlineTools == {"tool_send_message", "tool_read_messages"}

\* list_channels_resource is defined twice, at lines 434 and 590.
Resources == {"user_info_resource", "list_servers_resource",
              "list_channels_resource_1", "list_channels_resource_2"}

RpcOps == NotifyingTools \cup InlineTools \cup Resources

\* min(max(1, limit), 100), main.py:355.
Clamp(limit) ==
    LET low == IF limit < MinLimit THEN MinLimit ELSE limit
    IN IF low > MaxLimit THEN MaxLimit ELSE low

\* The limit the read_messages tool hands to channel.history.
ToolLimitArg(limit) == Clamp(limit)

Emojis(k) == [j \in 1..k |-> <<"+">>]

RpcArgs(op) ==
    CASE op = "tool_send_message" ->
           {[NoArgs EXCEPT !.channel_id = 7, !.content = <<"h", "i">>]}
      [] op = "tool_read_messages" ->
           {[NoArgs EXCEPT !.channel_id = 7, !.limit = lm] :
                lm \in {0, DefaultLimit, 500}}
      [] op = "user_info_resource" -> {[NoArgs EXCEPT !.user_id = 7]}
      [] op = "list_servers_resource" -> {NoArgs}
      [] op \in {"list_channels_resource_1", "list_channels_resource_2"} ->
           {[NoArgs EXCEPT !.server_id = 3]}
      [] op = "create_text_channel" ->
           {[NoArgs EXCEPT !.server_id = 3, !.name = <<"n">>,
                           !.category_id = cat] : cat \in {NoneId, 5}}
      [] op = "delete_channel" -> {[NoArgs EXCEPT !.channel_id = 7]}
      [] op \in {"add_reaction", "remove_reaction"} ->
           {[NoArgs EXCEPT !.channel_id = 7, !.message_id = 8,
                           !.emoji = <<"+">>]}
      [] op = "add_multiple_reactions" ->
           {[NoArgs EXCEPT !.channel_id = 7, !.message_id = 8,
                           !.emojis = Emojis(k)] : k \in 0..MaxEmojis}

\* A variant in which the functions that return a list return an empty one
\* without a bot; C34 tells it from the functions, which return the error.
RpcNotInitializedEmpty(op) ==
    CASE op = "tool_send_message" -> StatusErrBody(NotInitialized)
      [] op \in {"tool_read_messages", "list_servers_resource",
                 "list_channels_resource_1", "list_channels_resource_2"} ->
           Arr(<<>>)
      [] OTHER -> ErrBody(NotInitialized)

\* `if not bot_instance`: what each function returns without a bot.
RpcNotInitialized(op) ==
    CASE op = "tool_send_message" -> StatusErrBody(NotInitialized)
      [] op \in {"tool_read_messages", "list_servers_resource",
                 "list_channels_resource_1", "list_channels_resource_2"} ->
           Arr(<<[error |-> NotInitialized]>>)
      [] OTHER -> ErrBody(NotInitialized)

RpcGate(bi) == IF bi = 0 THEN "closed" ELSE "open"

\* A variant of the tools that forwards create_text_channel without the
\* category it received; C21 tells it from the tools, which forward every
\* parameter as received.
RpcPassedNoCategory(op, a) ==
    IF op = "tool_read_messages"
    THEN [a EXCEPT !.limit = ToolLimitArg(a.limit)]
    ELSE [a EXCEPT !.category_id = NoneId]

\* The arguments the function passes on: only read_messages changes one.
RpcPassed(op, a) ==
    IF op = "tool_read_messages"
    THEN [a EXCEPT !.limit = ToolLimitArg(a.limit)]
    ELSE a

\* The function up to its first await of a platform call.
RpcInvoke(op, a, found) ==
    CASE op = "tool_send_message" ->
           IF found THEN Await("send")
           ELSE Return(StatusErrBody("Channel not found"))
      [] op = "tool_read_messages" ->
           IF found THEN Await("history")
           ELSE Return(Arr(<<[error |-> "Channel not found"]>>))
      [] op = "user_info_resource" -> Await("fetch_user")
      [] op = "list_servers_resource" ->
           Return(Arr(IF found THEN <<ServerInfo>> ELSE <<>>))
      [] op = "list_channels_resource_1" ->
           IF found THEN Return(Arr(<<ChannelInfo>>))
           ELSE Return(Arr(<<[error |-> "Server not found"]>>))
      [] op = "list_channels_resource_2" -> BotInvoke("list_channels", a, found)
      [] op \in NotifyingTools -> BotInvoke(op, a, found)

\* The except clauses of the functions that hold their own copy.
RpcFailure(op, outcome, text) ==
    CASE op = "tool_send_message" -> SendMessageFailure(outcome, text)
      [] op = "tool_read_messages" ->
           Arr(<<[error |-> CASE outcome = "Forbidden" -> "Permission denied"
                              [] outcome = "NotFound" -> NotFoundText
                              [] outcome = "fail" -> text]>>)
      [] op = "user_info_resource" ->
           ErrBody(CASE outcome = "Forbidden" -> ForbiddenText
                     [] outcome = "NotFound" -> NotFoundText
                     [] outcome = "fail" -> text)
      [] op \in NotifyingTools -> BotFailure(op, outcome, text)

RpcProceed(op, a, stage, left, id, n) ==
    CASE op = "tool_send_message" -> BotProceed("send_message", a, stage, left, id, n)
      [] op = "tool_read_messages" -> Return(Arr([j \in 1..n |-> MessageInfo]))
      [] op = "user_info_resource" -> Return(UserInfo(a.user_id))
      [] op \in NotifyingTools -> BotProceed(op, a, stage, left, id, n)

\* A variant of add_multiple_reactions that takes back the reactions it
\* added when a later one fails; C33 tells it from the method, which
\* returns its error and leaves them.
RpcStepRollsBack(p, outcome, text, id, n) ==
    IF outcome = "ok"
    THEN RpcProceed(p.op, p.a, p.stage, p.left, id, n)
    ELSE IF p.op = "add_multiple_reactions" /\ p.stage = "add_reaction"
            /\ p.calls > 2
    THEN Await("remove_reaction")
    ELSE Return(RpcFailure(p.op, outcome, text))

RpcStep(p, outcome, text, id, n) ==
    IF outcome = "ok"
    THEN RpcProceed(p.op, p.a, p.stage, p.left, id, n)
    ELSE Return(RpcFailure(p.op, outcome, text))

\* A variant in which every function announces its dispatch; C22 tells it
\* from the resources, which take no Context.
NoteBeforeAlways(op) == <<"info">>

\* ctx.info before the dispatch.
NoteBefore(op) == IF op \in NotifyingTools THEN <<"info">> ELSE <<>>

\* ctx.info or ctx.error after it, chosen from the result.
NoteAfter(op, body) ==
    IF op \notin NotifyingTools THEN <<>>
    ELSE IF op = "create_text_channel"
    THEN IF "error" \notin DOMAIN body.o THEN <<"info">> ELSE <<"error">>
    ELSE IF "status" \in DOMAIN body.o /\ body.o.status = "success"
    THEN <<"info">> ELSE <<"error">>

NoteNotInitialized(op) == IF op \in NotifyingTools THEN <<"error">> ELSE <<>>

RpcRequestOf(op, a) == [kind |-> "rpc", data |-> EmptyObject, a |-> a]

\* One tool call or resource read, run to its return or to the first await
\* of a platform call.
RpcHandle(i, op, a, found) ==
    /\ LET h == bot_instance
           passed == RpcPassed(op, a)
           m == RpcInvoke(op, passed, found)
       IN IF RpcGate(bot_instance) = "closed"
          THEN /\ ~found /\ i = 1
               /\ resp' = Reply("rpc", 0, "none", op, RpcRequestOf(op, a), 0,
                                RpcNotInitialized(op), 0, 0,
                                NoteBefore(op) \o NoteNotInitialized(op))
               /\ call' = NoCall
               /\ UNCHANGED rpc
          ELSE /\ found => CanFind(conn[h])
               /\ (op = "user_info_resource") => found
               /\ IF m.done
                  THEN /\ i = 1
                       /\ resp' = Reply("rpc", 0, "none", op,
                                        RpcRequestOf(op, a), 0, m.body, h, 0,
                                        NoteBefore(op) \o NoteAfter(op, m.body))
                       /\ call' = NoCall
                       /\ UNCHANGED rpc
                  ELSE /\ FreeSlot(rpc, i)
                       /\ resp' = NoResp
                       /\ call' = PlatformCall(m.stage, h, conn[h], passed, RpcRequestOf(op, a))
                       /\ rpc' = [rpc EXCEPT ![i] =
                              Pending("rpc", op, RpcRequestOf(op, a), h, passed,
                                      m.stage, EmojiCount(op, passed), 1,
                                      NoteBefore(op))]
    /\ UNCHANGED <<launch, entry, pc, botAttr, discord_mcp, bot_instance, conn,
                   starts, http, ws>>

\* A tool call or a resource read arrives.
RpcRequest ==
    /\ Settled /\ pc = "serving" /\ entry = "rpc"
    /\ Capacity
    /\ \E i \in 1..MaxInflight, op \in RpcOps, found \in BOOLEAN :
          \E a \in RpcArgs(op) : RpcHandle(i, op, a, found)

\* The platform call an RPC function awaits ends.
RpcResume(i, outcome, text, id, n) ==
    /\ Relevant(rpc[i], outcome, text, id, n)
    /\ LET p == rpc[i]
           m == RpcStep(p, outcome, text, id, n)
       IN IF m.done
          THEN /\ resp' = Answered(Reply("rpc", 0, "none", p.op, p.req, 0,
                                         m.body, p.h, p.calls,
                                         p.notes \o NoteAfter(p.op, m.body)),
                                   outcome, text, id)
               /\ call' = NoCall
               /\ rpc' = [rpc EXCEPT ![i] = Idle]
          ELSE /\ resp' = NoResp
               /\ call' = PlatformCall(m.stage, p.h, conn[p.h], p.a, p.req)
               /\ rpc' = [rpc EXCEPT ![i] =
                      [p EXCEPT !.stage = m.stage, !.left = LeftAfter(p, m),
                                !.calls = p.calls + 1]]
    /\ UNCHANGED <<launch, entry, pc, botAttr, discord_mcp, bot_instance, conn,
                   starts, http, ws>>

RpcFacadeReturn(i) ==
    /\ Settled /\ pc = "serving"
    /\ rpc[i] # Idle
    /\ \E outcome \in Outcomes, text \in FailTexts, id \in NewIds, n \in 0..1 :
          RpcResume(i, outcome, text, id, n)

Next ==
    \/ Deliver
    \/ \E raised \in BOOLEAN : MainCreateAndStart(raised)
    \/ \E raised \in BOOLEAN : Initialize(raised)
    \/ Run
    \/ \E token \in Tokens, transport \in Transports, raised \in BOOLEAN :
          RpcMain(token, transport, raised)
    \/ Interrupt
    \/ \E h \in Handles : OnReady(h)
    \/ \E h \in Handles : Disconnect(h)
    \/ \E h \in Handles : Resume(h)
    \/ \E h \in Handles : ConnectionLost(h)
    \/ HealthCheck
    \/ HttpRequest
    \/ \E i \in 1..MaxInflight : HttpFacadeReturn(i)
    \/ \E i \in 1..MaxInflight, op \in BodyOps : HttpReceive(i, op)
    \/ \E i \in 1..MaxInflight : HttpBody(i)
    \/ \E i \in 1..MaxInflight : HttpCancel(i)
    \/ \E c \in 1..MaxConns : WsConnect(c)
    \/ \E c \in 1..MaxConns : WsClose(c)
    \/ \E c \in 1..MaxConns : WsMessage(c)
    \/ \E c \in 1..MaxConns : WsFacadeReturn(c)
    \/ RpcRequest
    \/ \E i \in 1..MaxInflight : RpcFacadeReturn(i)

Spec == Init /\ [][Next]_vars

\* The process keeps taking steps while one is possible: the event loop runs
\* every handler that is ready (asyncio.run, http_mcp_server.py:426).
LiveSpec == Spec /\ WF_vars(Next)

(***************************************************************************)
(* Vocabulary of the properties.                                           *)
(***************************************************************************)
\* The handle the serving transport dispatches through.
Handle == IF entry = "rpc" THEN bot_instance ELSE discord_mcp

\* The session state of the specification, read off the handle.
SessionState ==
    IF Handle = 0 THEN "Uninitialized"
    ELSE CASE conn[Handle] = "new" -> "Uninitialized"
           [] conn[Handle] = "connecting" -> "Connecting"
           [] conn[Handle] = "ready" -> "Ready"
           [] conn[Handle] = "degraded" -> "Degraded"
           [] conn[Handle] \in {"closed", "failed"} -> "Closed"

\* The catalogue of section 6: required parameters and integer parameters.
CatalogueRequired(op) ==
    CASE op = "send_message" -> {"channel_id", "content"}
      [] op = "read_messages" -> {"channel_id"}
      [] op = "get_user_info" -> {"user_id"}
      [] op = "create_text_channel" -> {"server_id", "name"}
      [] op = "delete_channel" -> {"channel_id"}
      [] op \in {"add_reaction", "remove_reaction"} ->
           {"channel_id", "message_id", "emoji"}
      [] OTHER -> {}

CatalogueIntegers(op) ==
    CASE op = "send_message" -> {"channel_id"}
      [] op = "read_messages" -> {"channel_id", "limit"}
      [] op = "get_user_info" -> {"user_id"}
      [] op = "create_text_channel" -> {"server_id", "category_id"}
      [] op = "delete_channel" -> {"channel_id"}
      [] op \in {"add_reaction", "remove_reaction"} ->
           {"channel_id", "message_id"}
      [] OTHER -> {}

\* A reply to an HTTP POST or to a WebSocket text message naming an operation.
IsPost(r) == r.transport = "http" /\ r.op \in HttpOps
IsWsOp(r) == r.transport = "ws" /\ r.op \in HttpOps
IsJsonCall(r) == (IsPost(r) \/ IsWsOp(r)) /\ r.req.kind = "object"

\* The call lacks a required parameter.
MissingRequired(r) ==
    \E k \in CatalogueRequired(r.op) : r.req.data[k].t = "absent"

\* Every required parameter has a usable value.
AllRequired(r) ==
    \A k \in CatalogueRequired(r.op) : Truthy(r.req.data[k])

\* An integer parameter is given but is no integer.
CoercionFails(r) ==
    \E k \in CatalogueIntegers(r.op) :
        Truthy(r.req.data[k]) /\ ~IntOk(r.req.data[k])

\* Every integer parameter that is given is an integer.
AllCoercible(r) ==
    \A k \in CatalogueIntegers(r.op) :
        r.req.data[k].t = "absent" \/ IntOk(r.req.data[k])

\* A well-formed call of an operation, on any transport.
IsDispatch(r) ==
    \/ r.transport = "rpc"
    \/ IsJsonCall(r) /\ AllRequired(r) /\ AllCoercible(r)

\* The error text a reply body carries ("" when it carries none).
ErrorText(body) ==
    IF body.json = "array"
    THEN IF Len(body.items) > 0 /\ "error" \in DOMAIN body.items[1]
         THEN body.items[1].error ELSE ""
    ELSE IF "error" \in DOMAIN body.o THEN body.o.error
    ELSE IF "status" \in DOMAIN body.o /\ body.o.status = "error"
    THEN body.o.message
    ELSE ""

Unavailable(body) == ErrorText(body) = NotInitialized

(***************************************************************************)
(* C1.  Readiness gate: a platform call is issued only while the session   *)
(* is Ready, and in every other session state a well-formed dispatch is    *)
(* answered with the backend-unavailable error.                            *)
(***************************************************************************)
C1_ReadinessGate ==
    /\ call # NoCall => call.conn = "ready"
    /\ (resp # NoResp /\ resp.calls = 0 /\ IsDispatch(resp)
        /\ SessionState # "Ready") => Unavailable(resp.body)

(***************************************************************************)
(* C2.  A call that lacks a required parameter is answered with the        *)
(* invalid-request error (status 400 over HTTP, the 'required' message),   *)
(* no platform call is issued for it, in every session state.              *)
(***************************************************************************)
NoSuspendedLacksRequired ==
    /\ \A i \in DOMAIN http :
          (http[i] # Idle /\ http[i].stage # "body") =>
             \A k \in CatalogueRequired(http[i].op) :
                http[i].req.data[k].t # "absent"
    /\ \A c \in DOMAIN ws :
          ws[c].cur # Idle => \A k \in CatalogueRequired(ws[c].cur.op) :
                                 ws[c].cur.req.data[k].t # "absent"

C2_MissingRequiredRejected ==
    /\ (resp # NoResp /\ IsJsonCall(resp) /\ MissingRequired(resp)) =>
          /\ resp.body = ErrBody(RequiredText(resp.op))
          /\ IsPost(resp) => resp.status = StatusBadRequest
          /\ resp.calls = 0
          /\ call = NoCall
    /\ NoSuspendedLacksRequired

\* A request lacking only its last required parameter is rejected although
\* the session is ready and every other parameter is good.
C2_Witness ==
    /\ resp # NoResp /\ IsPost(resp) /\ resp.op = "add_reaction"
    /\ resp.req.data["emoji"].t = "absent"
    /\ IntOk(resp.req.data["channel_id"]) /\ IntOk(resp.req.data["message_id"])
    /\ SessionState = "Ready" /\ botAttr = "truthy"
    /\ resp.status = StatusBadRequest

(***************************************************************************)
(* C3.  A parameter that is present but cannot be coerced to an integer is *)
(* answered with the invalid-request error (status 400) and no platform    *)
(* call is issued.  Stated for the requests that reach the coercion: every *)
(* required parameter is given and the handler finds its bot.              *)
(***************************************************************************)
C3_CoercionFailureIs400 ==
    (resp # NoResp /\ IsPost(resp) /\ resp.req.kind = "object"
     /\ AllRequired(resp) /\ CoercionFails(resp) /\ botAttr = "truthy") =>
        /\ resp.status = StatusBadRequest
        /\ resp.calls = 0

(***************************************************************************)
(* The outcome kinds of section 9, read off a reply.                       *)
(***************************************************************************)
NotFoundTexts == {"Channel not found", "User not found", "Server not found",
                  "Message not found", NotFoundText}

BackendUnavailable(r) == Unavailable(r.body)
InternalError(r) == ErrorText(r.body) \in {NoGetAttribute, NoBotAttribute}
BackendError(r) == r.calls > 0 /\ ErrorText(r.body) \in FailTexts
NotFound(r) == r.h # 0 /\ ErrorText(r.body) \in NotFoundTexts
PermissionDenied(r) == r.calls > 0 /\ ErrorText(r.body) = "Permission denied"

\* The request is malformed: unparseable body, missing parameter, or a
\* parameter that is no integer.
InvalidRequest(r) ==
    /\ r.op # "list_servers"
    /\ \/ r.req.kind = "notjson"
       \/ r.req.kind = "object" /\ (~AllRequired(r) \/ CoercionFails(r))

(***************************************************************************)
(* C4.  Every POST reply whose outcome is backend_unavailable,             *)
(* internal_error or backend_error has status 500.                         *)
(***************************************************************************)
C4_ServerErrorsAre500 ==
    (resp # NoResp /\ IsPost(resp)
     /\ (BackendUnavailable(resp) \/ InternalError(resp) \/ BackendError(resp)))
        => resp.status = StatusServerError

(***************************************************************************)
(* C5.  A POST reply has status 400 exactly when the request is invalid,   *)
(* and a not-found or permission-denied outcome has status 200 with the    *)
(* error in the body.  Stated for the handlers that find their bot.       *)
(***************************************************************************)
C5_BadRequestExactly ==
    (resp # NoResp /\ IsPost(resp) /\ botAttr = "truthy") =>
        /\ resp.status = StatusBadRequest <=> InvalidRequest(resp)
        /\ (NotFound(resp) \/ PermissionDenied(resp)) =>
              resp.status = StatusOK /\ ErrorText(resp.body) # ""

(***************************************************************************)
(* C6.  GET /health is answered with status 200 and a body of exactly the  *)
(* fields status and service, the same in every session state, on no       *)
(* handle and with no platform call.                                       *)
(***************************************************************************)
C6_HealthAlways200 ==
    (resp # NoResp /\ resp.op = "health") =>
        /\ resp.status = StatusOK
        /\ resp.body.json = "object"
        /\ DOMAIN resp.body.o = {"status", "service"}
        /\ resp.body.o.status = "healthy"
        /\ resp.h = 0 /\ resp.calls = 0 /\ call = NoCall

\* Health is answered while the connection of the bot has failed or closed.
C6_Witness ==
    /\ resp # NoResp /\ resp.op = "health" /\ resp.status = StatusOK
    /\ SessionState = "Closed"

(***************************************************************************)
(* C7.  WebSocket: a message with an unrecognized action is answered with  *)
(* {"error": "Unknown action", "action": <action>}, no bot method or       *)
(* platform call is made for it, and the connection is left open and idle, *)
(* ready for its next message.                                             *)
(***************************************************************************)
\* data.get('action') of the message: null when it has no action.
ReceivedAction(req) ==
    IF req.data["action"].t = "absent" THEN JNull ELSE req.data["action"]

IsUnknownAction(r) ==
    r.transport = "ws" /\ r.req.kind = "object" /\ r.op \notin WsActions

C7_UnknownActionKeepsOpen ==
    (resp # NoResp /\ IsUnknownAction(resp)) =>
        /\ resp.body = UnknownAction(ReceivedAction(resp.req))
        /\ resp.h = 0 /\ resp.calls = 0 /\ call = NoCall
        /\ ws[resp.c].open /\ ws[resp.c].cur = Idle

\* A valid send_message is dispatched and answered with success on a
\* connection whose previous reply was the unknown-action error.
C7_Witness ==
    /\ resp # NoResp /\ resp.transport = "ws" /\ resp.after = "unknown"
    /\ resp.op = "send_message" /\ resp.calls = 1
    /\ ErrorText(resp.body) = ""

(***************************************************************************)
(* C8.  WebSocket: a message that is not JSON is answered with             *)
(* {"error": "Invalid JSON"}, nothing is dispatched for it, and the        *)
(* connection is left open and idle, ready for its next message.           *)
(***************************************************************************)
IsInvalidJson(r) == r.transport = "ws" /\ r.req.kind = "notjson"

C8_InvalidJsonKeepsOpen ==
    (resp # NoResp /\ IsInvalidJson(resp)) =>
        /\ resp.body = ErrBody(InvalidJSON)
        /\ resp.op = "none"
        /\ resp.h = 0 /\ resp.calls = 0 /\ call = NoCall
        /\ ws[resp.c].open /\ ws[resp.c].cur = Idle

\* A second unparseable message is answered on a connection whose previous
\* reply was the invalid-JSON error, and the connection is still open.
C8_Witness ==
    /\ resp # NoResp /\ IsInvalidJson(resp) /\ resp.after = "invalid"
    /\ resp.body = ErrBody(InvalidJSON)
    /\ ws[resp.c].open

(***************************************************************************)
(* C9.  Over every start-up sequence the connection is started at most     *)
(* once and one handle exists: the handle is never replaced by a second    *)
(* one.                                                                    *)
(***************************************************************************)
C9_InitiationOnce ==
    /\ starts <= 1
    /\ Handle \in {0, 1}
    /\ conn[2] = "new"

(***************************************************************************)
(* C10.  The limit channel.history is called with is the requested limit   *)
(* clamped to [1, 100], on every transport.                                *)
(***************************************************************************)
RequestedLimit(req) ==
    IF req.kind = "rpc" THEN req.a.limit
    ELSE IF req.data["limit"].t = "absent" THEN DefaultLimit
    ELSE IntOf(req.data["limit"])

C10_LimitClamped ==
    /\ call # NoCall /\ call.kind = "history" =>
          call.a.limit = Clamp(RequestedLimit(call.req))
    /\ \A x \in {0, MinLimit, DefaultLimit, MaxLimit, 500} :
          Clamp(Clamp(x)) = Clamp(x)

(***************************************************************************)
(* C11.  One discriminant field tells success from failure in every HTTP   *)
(* reply body, the same field for every operation and outcome: either the  *)
(* field is present exactly in the failures, or it has the value "error"   *)
(* exactly in the failures.                                                *)
(***************************************************************************)
Failed(r) == ErrorText(r.body) # ""

\* The fields a failure body is made of.
ErrorFields == {"error", "status", "message"}

FieldOf(f, body) ==
    IF body.json = "object" /\ f \in DOMAIN body.o THEN body.o[f] ELSE "absent"

Tells(f, rule, r) ==
    IF rule = "present" THEN Failed(r) <=> FieldOf(f, r.body) # "absent"
    ELSE Failed(r) <=> FieldOf(f, r.body) = "error"

Discriminates(f, rule) ==
    (resp # NoResp /\ IsPost(resp)) => Tells(f, rule, resp)

C11_SingleDiscriminant ==
    \E f \in ErrorFields, rule \in {"present", "value"} : []Discriminates(f, rule)

(***************************************************************************)
(* C12.  A failure of one operation from one cause is reported with the    *)
(* same error fields on every transport.  The HTTP body is the reference:  *)
(* a JSON object with the field error, or, for a failure that              *)
(* DiscordMCP.send_message reports, with the fields status and message;    *)
(* the WebSocket reply and the RPC result carry the same.                  *)
(***************************************************************************)
\* The operation a reply is about, whatever the transport.
BaseOp(r) ==
    CASE r.op = "tool_send_message" -> "send_message"
      [] r.op = "tool_read_messages" -> "read_messages"
      [] r.op = "user_info_resource" -> "get_user_info"
      [] r.op = "list_servers_resource" -> "list_servers"
      [] r.op \in {"list_channels_resource_1", "list_channels_resource_2"} ->
           "list_channels"
      [] OTHER -> r.op

\* The failure causes of the claim ("none": the reply reports none of them).
Cause(r) ==
    CASE ErrorText(r.body) = NotInitialized -> "unavailable"
      [] ErrorText(r.body) \in NotFoundTexts -> "not_found"
      [] ErrorText(r.body) \in {"Permission denied", ForbiddenText} ->
           "permission_denied"
      [] ErrorText(r.body) \in FailTexts -> "failure"
      [] OTHER -> "none"

\* The container and the fields of the record that reports the failure.
ErrorShape(body) ==
    IF body.json = "array"
    THEN [json |-> "array", fields |-> DOMAIN body.items[1]]
    ELSE [json |-> "object", fields |-> DOMAIN body.o]

HttpErrorShape(op, cause) ==
    [json |-> "object",
     fields |-> IF op = "send_message" /\ cause # "unavailable"
                THEN {"status", "message"} ELSE {"error"}]

C12_SameErrorFields ==
    (resp # NoResp /\ resp.op # "health" /\ Cause(resp) # "none") =>
        ErrorShape(resp.body) = HttpErrorShape(BaseOp(resp), Cause(resp))

\* The reference is what the HTTP and WebSocket adapters send.
C12_HttpReference ==
    (resp # NoResp /\ resp.transport \in {"http", "ws"}) => C12_SameErrorFields

(***************************************************************************)
(* C13.  Every HTTP response, on every route, for every request body and   *)
(* in every session state, carries a JSON object or a JSON array; a        *)
(* response with an error status carries the error text in its body.       *)
(***************************************************************************)
C13_HttpBodyIsJson ==
    (resp # NoResp /\ resp.transport = "http") =>
        /\ resp.body.json \in {"object", "array"}
        /\ resp.status \in {StatusOK, StatusBadRequest, StatusServerError}
        /\ resp.status # StatusOK =>
              resp.body.json = "object" /\ ErrorText(resp.body) # ""

\* A body that is JSON but no object makes data.get raise inside the
\* handler; the reply is still a JSON object, with status 500.
C13_Witness ==
    /\ resp # NoResp /\ resp.transport = "http"
    /\ resp.req.kind = "nonobject"
    /\ resp.status = StatusServerError
    /\ resp.body = ErrBody(NoGetAttribute)

(***************************************************************************)
(* C14.  A DiscordMCP method that was called returns a normal value        *)
(* whatever the platform call did: the reply built from it is a JSON       *)
(* object or array, and over HTTP it is sent by the handler's normal       *)
(* return (status 200), never by its exception clause.                     *)
(***************************************************************************)
\* The reply is the return value of a DiscordMCP method.
FromBotMethod(r) ==
    /\ r.h # 0
    /\ \/ r.transport \in {"http", "ws"}
       \/ r.op \in NotifyingTools \cup {"list_channels_resource_2"}

C14_MethodsNeverRaise ==
    (resp # NoResp /\ FromBotMethod(resp)) =>
        /\ resp.body.json \in {"object", "array"}
        /\ resp.transport = "http" => resp.status = StatusOK

\* The platform call raised a failure that is neither NotFound nor
\* Forbidden, and the method returned its text as a value.
C14_Witness ==
    /\ resp # NoResp /\ FromBotMethod(resp) /\ resp.transport = "http"
    /\ resp.calls > 0
    /\ ErrorText(resp.body) \in FailTexts
    /\ resp.status = StatusOK

(***************************************************************************)
(* C15.  The body a transport adapter sends for a fault caught by its      *)
(* top-level guard does not depend on the fault: one error text answers    *)
(* every such fault.                                                       *)
(***************************************************************************)
\* The reply was sent by the `except Exception` clause of a handler.
CaughtFault(r) ==
    \/ r.transport = "http" /\ r.op \in HttpOps
       /\ r.status = StatusServerError /\ ~Unavailable(r.body)
    \/ r.transport = "ws" /\ r.req.kind = "nonobject"

\* The texts a guard could answer with: the texts of the exceptions and a
\* text that names none.
GuardTexts ==
    {NoGetAttribute, NoBotAttribute, IntError(JStr(<<"x">>)), IntError(JNull),
     "Internal server error"}

AnswersWith(text) ==
    (resp # NoResp /\ CaughtFault(resp)) => ErrorText(resp.body) = text

C15_FaultBodyIndependent == \E text \in GuardTexts : []AnswersWith(text)

(***************************************************************************)
(* C16.  How the last platform call of a dispatch ended decides the error  *)
(* of the reply, for every operation: NotFound gives the operation's       *)
(* not-found error, Forbidden gives "Permission denied", any other failure *)
(* gives an error whose text is the failure's text, and no failure is      *)
(* reported as a success.                                                  *)
(***************************************************************************)
CanonicalNotFound == {"Channel not found", "User not found",
                      "Server not found", "Message not found"}

C16_OutcomeMapping ==
    (resp # NoResp /\ resp.last.outcome \in {"NotFound", "Forbidden", "fail"}) =>
        /\ Failed(resp)
        /\ resp.last.outcome = "NotFound" =>
              ErrorText(resp.body) \in CanonicalNotFound
        /\ resp.last.outcome = "Forbidden" =>
              ErrorText(resp.body) = "Permission denied"
        /\ resp.last.outcome = "fail" =>
              ErrorText(resp.body) = resp.last.text

(***************************************************************************)
(* C17.  send_message: the channel id given as a numeric string reaches    *)
(* channel.send's channel as that integer, the content reaches it as       *)
(* received, and when the platform call succeeds the result has status     *)
(* "success" and the message id the platform returned.                     *)
(***************************************************************************)
C17_SendMessageSuccess ==
    /\ (call # NoCall /\ call.kind = "send" /\ call.req.kind = "object") =>
          /\ call.a.channel_id = IntOf(call.req.data["channel_id"])
          /\ call.a.content = call.req.data["content"].s
    /\ (resp # NoResp /\ BaseOp(resp) = "send_message"
        /\ resp.last.outcome = "ok") =>
          /\ resp.body.json = "object"
          /\ resp.body.o.status = "success"
          /\ resp.body.o.message_id = resp.last.id

\* POST /send_message with channel_id "7": the platform returns id 102 and
\* the result carries it.
C17_Witness ==
    /\ resp # NoResp /\ resp.transport = "http" /\ resp.op = "send_message"
    /\ resp.req.data["channel_id"] = JStr(<<"7">>)
    /\ resp.last.outcome = "ok" /\ resp.last.id = 102
    /\ resp.body.o.status = "success" /\ resp.body.o.message_id = 102

(***************************************************************************)
(* C18.  WebSocket connections are independent: the step that closes one   *)
(* connection, idle or in the middle of a dispatch, changes no other       *)
(* connection, no dispatch in flight, and neither the bot handle nor the   *)
(* state of its session; and an open idle connection can have its next     *)
(* message handled whatever the state of the other connections.            *)
(***************************************************************************)
Closes(c) == ws[c].open /\ ~ws'[c].open

C18_CloseStep ==
    \A c \in DOMAIN ws :
        Closes(c) =>
            /\ \A d \in DOMAIN ws \ {c} : ws'[d] = ws[d]
            /\ ws'[c].cur = ws[c].cur
            /\ discord_mcp' = discord_mcp /\ conn' = conn
            /\ http' = http

C18_OthersServed ==
    \A d \in DOMAIN ws :
        (Settled /\ pc = "serving" /\ Capacity /\ ws[d].open /\ ws[d].cur = Idle)
            => ENABLED WsMessage(d)

SendsOn(c) == resp' # NoResp /\ resp'.transport = "ws" /\ resp'.c = c

Completes(c) == ws[c].cur # Idle /\ ws'[c].cur = Idle

C19_ReplyStep ==
    \A c \in DOMAIN ws :
        /\ (Completes(c) /\ ws[c].open) =>
              SendsOn(c) /\ resp'.req = ws[c].cur.req
        /\ SendsOn(c) =>
              /\ ws'[c].cur = Idle
              /\ ws[c].cur # Idle => resp'.req = ws[c].cur.req
              /\ ws[c].cur = Idle => resp'.calls = 0

C19_RepliesInCompletionOrder == [][C19_ReplyStep]_vars

\* The second message of a connection, whose dispatch awaited the platform,
\* is answered after the first, which was answered at once.
C19_Witness ==
    /\ resp # NoResp /\ resp.transport = "ws"
    /\ resp.after = "invalid"
    /\ resp.op = "read_messages" /\ resp.calls > 0
    /\ resp.last.outcome = "ok"

(***************************************************************************)
(* C20.  Every RPC tool emits two notifications around its dispatch: an    *)
(* informational one before it, and after it an informational one when    *)
(* the result is a success, an error one when the result is a failure or   *)
(* the bot is not initialized.                                             *)
(***************************************************************************)
RpcTools == NotifyingTools \cup InlineTools

C20_ToolNotifications ==
    (resp # NoResp /\ resp.transport = "rpc" /\ resp.op \in RpcTools) =>
        resp.notes = <<"info", IF Failed(resp) THEN "error" ELSE "info">>

(***************************************************************************)
(* C21.  The notifications of the five notifying tools do not alter the    *)
(* dispatch: the DiscordMCP method is called with exactly the parameters   *)
(* the tool received, and the tool returns exactly what the method         *)
(* returned, whatever notifications it emitted.                            *)
(***************************************************************************)
\* A notifying tool suspended in its DiscordMCP method.
ToolSuspended(i) == rpc[i] # Idle /\ rpc[i].op \in NotifyingTools

\* The reply of a notifying tool that found its bot.
IsToolReturn(r) == r.transport = "rpc" /\ r.op \in NotifyingTools /\ r.h # 0

C21_ParametersForwarded ==
    /\ \A i \in DOMAIN rpc :
          ToolSuspended(i) =>
             /\ rpc[i].a = rpc[i].req.a
             /\ (call # NoCall /\ call.kind = rpc[i].stage
                 /\ call.req = rpc[i].req) => call.a = rpc[i].req.a
    /\ (resp # NoResp /\ IsToolReturn(resp) /\ resp.calls = 0) =>
          \E found \in BOOLEAN :
             resp.body = BotInvoke(resp.op, resp.req.a, found).body

\* The step in which a suspended tool returns: its value is the value of the
\* method for the way the platform call ended.
C21_ReturnStep ==
    \A i \in DOMAIN rpc :
        (ToolSuspended(i) /\ rpc'[i] = Idle) =>
            /\ resp' # NoResp /\ IsToolReturn(resp')
            /\ resp'.body = BotStep(rpc[i], resp'.last.outcome, resp'.last.text,
                                    resp'.last.id, 0).body
            /\ Len(resp'.notes) = 2

C21_NotificationsKeepOutcome ==
    []C21_ParametersForwarded /\ [][C21_ReturnStep]_vars

\* create_text_channel with a category: two notifications were emitted, and
\* the channel the method reports is returned with the category received.
C21_Witness ==
    /\ resp # NoResp /\ IsToolReturn(resp) /\ resp.op = "create_text_channel"
    /\ resp.req.a.category_id = 5 /\ resp.last.outcome = "ok"
    /\ resp.notes = <<"info", "info">>
    /\ resp.body.o.category_id = 5 /\ resp.body.o.id = resp.last.id

(***************************************************************************)
(* C22.  Reading an RPC resource (users://{user_id}/info, servers://list,  *)
(* channels://{server_id}/list) emits no notification and asks the         *)
(* platform for no send, create, delete or reaction change, in every       *)
(* session state.                                                          *)
(***************************************************************************)
\* The platform calls that change something on the platform.
MutatingCalls == {"send", "create_text_channel", "delete", "add_reaction",
                  "remove_reaction"}

C22_ResourcesQueryOnly ==
    /\ \A i \in DOMAIN rpc :
          (rpc[i] # Idle /\ rpc[i].op \in Resources) =>
             /\ rpc[i].notes = <<>>
             /\ rpc[i].stage \notin MutatingCalls
             /\ (call # NoCall /\ call.req = rpc[i].req) =>
                   call.kind \notin MutatingCalls
    /\ (resp # NoResp /\ resp.transport = "rpc" /\ resp.op \in Resources) =>
          /\ resp.notes = <<>>
          /\ call = NoCall

\* The user resource is read while the session is degraded: the one platform
\* call it made was the fetch of the user, and nothing was notified.
C22_Witness ==
    /\ resp # NoResp /\ resp.transport = "rpc"
    /\ resp.op = "user_info_resource" /\ resp.calls = 1
    /\ resp.last.outcome = "ok" /\ resp.notes = <<>>
    /\ SessionState = "Degraded"

(***************************************************************************)
(* C23.  No request is served before session initiation: whenever a reply  *)
(* is sent or a platform call is issued, on any start-up path, the bot     *)
(* handle has been created and the start of its connection requested.      *)
(***************************************************************************)
Initiated == Handle # 0 /\ starts >= 1

Serves == resp # NoResp \/ call # NoCall

C23_NoTrafficBeforeInitiation == Serves => Initiated

(***************************************************************************)
(* C24.  Shutdown closes the session and releases the handle: once the     *)
(* process has stopped serving, after an interrupt or a failure in any     *)
(* session state, no bot connection is live any more and the transport     *)
(* holds no handle through which a method could still be invoked.          *)
(***************************************************************************)
Live(h) == conn[h] \in {"connecting", "ready", "degraded"}

C24_ShutdownCloses ==
    (pc = "exited" /\ starts >= 1) =>
        /\ \A h \in Handles : ~Live(h)
        /\ Handle = 0

(***************************************************************************)
(* C25.  Catalogue coverage: once a transport serves, every operation of   *)
(* the catalogue is exposed on it (a POST route over HTTP, a recognized    *)
(* action over WebSocket, a tool or resource over RPC), so the three       *)
(* transports expose the same operations; in particular a WebSocket        *)
(* message naming a catalogue operation is never answered 'Unknown         *)
(* action'.                                                                *)
(***************************************************************************)
\* The ten operations of the catalogue: the DiscordMCP methods.
Catalogue == BotOps

\* The catalogue operations the RPC functions stand for.
RpcExposed == {BaseOp([op |-> f]) : f \in RpcOps}

\* The operations exposed by the transports the process serves.
ExposedEverywhere ==
    CASE entry = "rpc" -> RpcExposed
      [] entry = "run_server_ws" -> HttpOps \cap WsActions
      [] OTHER -> HttpOps

C25_CatalogueCoverage ==
    /\ pc = "serving" => ExposedEverywhere = Catalogue
    /\ (resp # NoResp /\ resp.transport = "ws" /\ resp.req.kind = "object"
        /\ \E op \in Catalogue : resp.req.data["action"] = Name(op)) =>
          ErrorText(resp.body) # "Unknown action"

(***************************************************************************)
(* C26.  Validation precedes the readiness gate: a call with a missing or  *)
(* non-coercible parameter is answered from its validation in every        *)
(* session state, never from the gate (neither with the backend-unavailable *)
(* error nor with a failure of reading the session).                       *)
(***************************************************************************)
\* The reply was produced by the handler's test of the session.
FromGate(r) == ErrorText(r.body) \in {NotInitialized, NoBotAttribute}

C26_ValidationBeforeGate ==
    (resp # NoResp /\ IsJsonCall(resp)
     /\ (MissingRequired(resp) \/ CoercionFails(resp))) => ~FromGate(resp)

(***************************************************************************)
(* C27.  Each dispatch calls its method once and never retries.  As first  *)
(* stated: every dispatch that reaches the platform requests exactly one   *)
(* platform operation.                                                     *)
(***************************************************************************)
\* A reply of a dispatched operation.
IsOperation(r) == r.op \in HttpOps \cup RpcOps

C27_OnePlatformOperation ==
    (resp # NoResp /\ IsOperation(resp) /\ resp.calls > 0) => resp.calls = 1

(***************************************************************************)
(* C27, as the methods behave.  A method requests each of its platform     *)
(* operations at most once, in sequence: none for the cache lookups, one   *)
(* for send, read, create, delete and the fetch of a user, the fetch of    *)
(* the message and then one per emoji for the reaction operations.  A      *)
(* failure ends the dispatch: nothing is requested again or after it, so   *)
(* the count of a finished dispatch is complete exactly when its last      *)
(* platform operation succeeded, and never above it.                       *)
(***************************************************************************)
PlatformOperations(op, req) ==
    CASE op \in {"get_user_info", "list_servers", "list_servers_resource",
                 "list_channels_resource_1", "list_channels_resource_2"} -> 0
      [] op \in {"send_message", "read_messages", "create_text_channel",
                 "delete_channel", "tool_send_message", "tool_read_messages",
                 "user_info_resource"} -> 1
      [] op \in {"add_reaction", "remove_reaction"} -> 2
      [] op = "add_multiple_reactions" -> 1 + Len(req.a.emojis)

\* The coroutines suspended in a platform call.
Suspended ==
    {http[i] : i \in {j \in Busy(http) : http[j].stage # "body"}}
    \cup {rpc[i] : i \in Busy(rpc)}
    \cup {ws[c].cur : c \in {d \in DOMAIN ws : ws[d].cur # Idle}}

C27_NoRetry ==
    /\ \A p \in Suspended :
          p.calls >= 1 /\ p.calls <= PlatformOperations(p.op, p.req)
    /\ (resp # NoResp /\ IsOperation(resp)) =>
          /\ resp.calls <= PlatformOperations(resp.op, resp.req)
          /\ resp.calls = 0 <=> resp.last = NoAnswer
          /\ resp.last.outcome = "ok" =>
                resp.calls = PlatformOperations(resp.op, resp.req)

\* add_multiple_reactions with two emojis: the first reaction failed, the
\* method returned its error and the second reaction was never requested.
C27_Witness ==
    /\ resp # NoResp /\ resp.op = "add_multiple_reactions"
    /\ Len(resp.req.a.emojis) = 2
    /\ resp.calls = 2 /\ resp.last.outcome = "fail"
    /\ ErrorText(resp.body) \in FailTexts

(***************************************************************************)
(* C28.  The HTTP adapter keeps no state between calls, and a cancelled    *)
(* request corrupts nothing: a step of an HTTP handler (a request handled  *)
(* to its reply, a step of its dispatch, or its cancellation while it      *)
(* awaits the body or the platform) leaves the published bot, the session  *)
(* and the start-up state as they were; and a reply sent without a         *)
(* platform call is the one the handler computes from the request and the  *)
(* session as they are now, whatever was handled before.                   *)
(***************************************************************************)
\* A step of an HTTP handler.
HttpStep == http' # http \/ (resp' # NoResp /\ resp'.transport = "http")

C28_HttpFrame ==
    HttpStep => UNCHANGED <<entry, pc, botAttr, discord_mcp, bot_instance,
                            conn, starts, ws, rpc>>

\* The reply the handler of `op` gives to `body` in the current state when
\* it reaches no platform call.
ImmediateReplies(op, body) ==
    LET pre == HttpPrefix(op, body, discord_mcp, botAttr)
    IN IF pre.to = "reply"
       THEN {[status |-> pre.status, body |-> pre.body]}
       ELSE {[status |-> StatusOK,
              body |-> BotInvoke(op, HttpArgs(op, body.data), found).body] :
                found \in BOOLEAN}

C28_ReplyFromRequestAlone ==
    (resp # NoResp /\ IsPost(resp) /\ resp.calls = 0) =>
        [status |-> resp.status, body |-> resp.body]
            \in ImmediateReplies(resp.op, resp.req)

C28_HttpStateless == [][C28_HttpFrame]_vars /\ []C28_ReplyFromRequestAlone

\* A handler awaiting the platform has just been cancelled: its slot is
\* free, nothing was replied, and the bot is still published and ready.
C28_Witness ==
    /\ call # NoCall /\ call.kind = "cancel" /\ resp = NoResp
    /\ \A i \in DOMAIN http : http[i] = Idle
    /\ discord_mcp = call.h /\ discord_mcp # 0
    /\ conn[discord_mcp] = "ready"

(***************************************************************************)
(* C29.  Concurrent send_message dispatches complete independently, in     *)
(* any interleaving with each other and with the start of the session:     *)
(* each reply is determined by its own request, the method is invoked on   *)
(* the handle the readiness test read, and no dispatch invokes the method  *)
(* on a handle that is published but not yet connected.                    *)
(***************************************************************************)
IsSend(r) == r.transport \in {"http", "ws"} /\ r.op = "send_message"

\* send_message dispatches awaiting channel.send.
SendsInFlight ==
    {p \in Suspended : p.transport \in {"http", "ws"} /\ p.op = "send_message"}

\* What send_message returns for the way channel.send ended.
SendOutcome(r) ==
    IF r.last.outcome = "ok" THEN SendResult(r.last.id)
    ELSE SendMessageFailure(r.last.outcome, r.last.text)

C29_OwnReply ==
    (resp # NoResp /\ IsSend(resp) /\ resp.calls > 0) =>
        /\ resp.calls = 1
        /\ resp.body = SendOutcome(resp)
        /\ IntOk(resp.req.data["channel_id"])

C29_SameHandle ==
    /\ \A p \in SendsInFlight : p.h = discord_mcp
    /\ (resp # NoResp /\ IsSend(resp) /\ resp.h # 0) => resp.h = discord_mcp

\* The method was invoked in this step, on a handle that is connected.
C29_ConnectedHandle ==
    /\ (resp # NoResp /\ IsSend(resp) /\ resp.h # 0 /\ resp.calls = 0) =>
          conn[resp.h] \notin {"new", "connecting"}
    /\ (call # NoCall /\ call.kind = "send") =>
          call.conn \notin {"new", "connecting"}

C29_ConcurrentSends ==
    C29_OwnReply /\ C29_SameHandle /\ C29_ConnectedHandle

(***************************************************************************)
(* C30.  On an open WebSocket connection every text message received gets  *)
(* exactly one reply, whatever its outcome, and the messages are handled   *)
(* one at a time: while a message is being dispatched no other message of  *)
(* the connection is taken and nothing is sent, the dispatch ends with the *)
(* reply to that message, and a reply sent while nothing was in dispatch   *)
(* answers the message taken in that very step.                            *)
(***************************************************************************)
\* The handler of connection c is in the dispatch of a message.
Dispatching(c) == ws[c].cur # Idle

C30_OneAtATime ==
    \A c \in DOMAIN ws :
        /\ (Dispatching(c) /\ ws'[c].cur # Idle) =>
              /\ ws'[c].cur.req = ws[c].cur.req
              /\ ~SendsOn(c)
        /\ (Dispatching(c) /\ ws'[c].cur = Idle /\ ws[c].open) =>
              /\ SendsOn(c)
              /\ resp'.req = ws[c].cur.req /\ resp'.calls = ws[c].cur.calls
        /\ (~Dispatching(c) /\ ws'[c].cur # Idle) =>
              /\ ws[c].open /\ ~SendsOn(c)
              /\ ws'[c].cur.req \in WsMessages /\ ws'[c].cur.calls = 1
        /\ (~Dispatching(c) /\ SendsOn(c)) =>
              /\ ws[c].open /\ ws'[c].cur = Idle
              /\ resp'.req \in WsMessages /\ resp'.calls = 0

\* The reply is a JSON value for every outcome of the message.
C30_AlwaysAReply ==
    (resp # NoResp /\ resp.transport = "ws") =>
        /\ resp.body.json \in {"object", "array"}
        /\ (resp.req.kind = "notjson") => resp.body = ErrBody(InvalidJSON)
        /\ (resp.req.kind = "nonobject") => resp.body = ErrBody(NoGetAttribute)
        /\ (resp.req.kind = "object" /\ resp.op = "none") =>
              ErrorText(resp.body) = "Unknown action"

C30_OneReplyPerMessage == [][C30_OneAtATime]_vars /\ []C30_AlwaysAReply

\* A message lacking a parameter is answered on a connection whose previous
\* message, an unknown action, was answered too; the connection stays open.
C30_Witness ==
    /\ resp # NoResp /\ resp.transport = "ws" /\ resp.after = "unknown"
    /\ resp.op = "delete_channel"
    /\ resp.body = ErrBody(RequiredText("delete_channel"))
    /\ ws[resp.c].open /\ ws[resp.c].cur = Idle

(***************************************************************************)
(* C31.  HTTP and WebSocket are equivalent for the eight shared            *)
(* operations: for the same operation, the same JSON object of parameters, *)
(* the same session and the same outcome of the platform, the WebSocket    *)
(* reply is the body of the HTTP response, and the DiscordMCP method is    *)
(* called with the same arguments on the same handle.                      *)
(***************************************************************************)
\* The request as the other transport receives it.
AsWsMessage(op, req) == Object([req.data EXCEPT !["action"] = Name(op)])

\* The reply the WebSocket handler gives in the current state when it
\* reaches no platform call.
ImmediateWsReplies(op, req) ==
    LET msg == AsWsMessage(op, req)
        pre == WsPrefix(msg, discord_mcp, botAttr)
    IN IF pre.to = "reply" THEN {pre.body}
       ELSE {BotInvoke(op, WsArgs(op, msg.data), found).body :
                found \in BOOLEAN}

C31_SameImmediateReply ==
    /\ (resp # NoResp /\ IsWsOp(resp) /\ resp.req.kind = "object"
        /\ resp.calls = 0) =>
          resp.body \in {r.body : r \in ImmediateReplies(resp.op, resp.req)}
    /\ (resp # NoResp /\ IsPost(resp) /\ resp.req.kind = "object"
        /\ resp.calls = 0) =>
          resp.body \in ImmediateWsReplies(resp.op, resp.req)

C31_SameArguments ==
    /\ \A c \in DOMAIN ws :
          ws[c].cur # Idle =>
             /\ ws[c].cur.a = HttpArgs(ws[c].cur.op, ws[c].cur.req.data)
             /\ ws[c].cur.h = discord_mcp
    /\ \A i \in DOMAIN http :
          (http[i] # Idle /\ http[i].stage # "body") =>
             /\ http[i].a = WsArgs(http[i].op, http[i].req.data)
             /\ http[i].h = discord_mcp

\* The step in which a dispatch ends: on either transport the reply is the
\* value of the method for the way the platform call ended.
C31_SameReturn ==
    /\ \A c \in DOMAIN ws :
          (ws[c].cur # Idle /\ ws'[c].cur = Idle /\ SendsOn(c)) =>
             \E n \in 0..1 :
                resp'.body = BotStep(ws[c].cur, resp'.last.outcome,
                                     resp'.last.text, resp'.last.id, n).body
    /\ \A i \in DOMAIN http :
          (http[i] # Idle /\ http[i].stage # "body" /\ http'[i] = Idle
           /\ resp' # NoResp) =>
             \E n \in 0..1 :
                resp'.body = BotStep(http[i], resp'.last.outcome,
                                     resp'.last.text, resp'.last.id, n).body

C31_HttpWsEquivalent ==
    []C31_SameImmediateReply /\ []C31_SameArguments /\ [][C31_SameReturn]_vars

\* create_text_channel over WebSocket with a category: the channel the
\* method reports is sent as it is.
C31_Witness ==
    /\ resp # NoResp /\ IsWsOp(resp) /\ resp.op = "create_text_channel"
    /\ resp.req.data["category_id"] = JInt(5)
    /\ resp.calls = 1 /\ resp.last.outcome = "ok"
    /\ resp.body.o.category_id = 5 /\ resp.body.o.id = resp.last.id

(***************************************************************************)
(* C32.  In the HTTP and WebSocket handlers a required parameter counts    *)
(* only when its value is truthy: a request giving it as 0, "", false or   *)
(* null is answered with the 'required' error of a request that omits it   *)
(* and no method is called; and a category_id that is 0 or "" reaches the  *)
(* method as no category.                                                  *)
(***************************************************************************)
\* A required parameter is given with a falsy value.
FalsyRequired(r) ==
    \E k \in CatalogueRequired(r.op) :
        r.req.data[k].t # "absent" /\ ~Truthy(r.req.data[k])

\* The dispatches of the two handlers that are suspended in a method.
HandlerDispatches == {p \in Suspended : p.transport \in {"http", "ws"}}

C32_FalsyIsMissing ==
    /\ (resp # NoResp /\ IsJsonCall(resp) /\ FalsyRequired(resp)) =>
          /\ resp.body = ErrBody(RequiredText(resp.op))
          /\ IsPost(resp) => resp.status = StatusBadRequest
          /\ resp.h = 0 /\ resp.calls = 0 /\ call = NoCall
    /\ \A p \in HandlerDispatches :
          /\ \A k \in CatalogueRequired(p.op) : Truthy(p.req.data[k])
          /\ (p.op = "create_text_channel"
              /\ ~Truthy(p.req.data["category_id"])) =>
                 p.a.category_id = NoneId
    /\ (resp # NoResp /\ IsJsonCall(resp) /\ resp.op = "create_text_channel"
        /\ resp.last.outcome = "ok"
        /\ ~Truthy(resp.req.data["category_id"])) =>
          resp.body.o.category_id = NoneId

\* channel_id false: the request is rejected as if it had no channel_id
\* although the session is ready and the content is good.
C32_Witness ==
    /\ resp # NoResp /\ IsPost(resp) /\ resp.op = "send_message"
    /\ resp.req.data["channel_id"] = JFalse
    /\ Truthy(resp.req.data["content"])
    /\ SessionState = "Ready" /\ botAttr = "truthy"
    /\ resp.body = ErrBody(RequiredText("send_message"))
    /\ resp.status = StatusBadRequest

\* A channel was created for a request whose category_id is 0: the method
\* was called with no category.
C32_WitnessCategory ==
    /\ resp # NoResp /\ IsJsonCall(resp) /\ resp.op = "create_text_channel"
    /\ resp.req.data["category_id"] = JInt(0)
    /\ resp.last.outcome = "ok" /\ resp.body.o.category_id = NoneId

(***************************************************************************)
(* C33.  add_multiple_reactions is ordered and best-effort, not            *)
(* all-or-nothing: after the fetch of the message the reactions are        *)
(* requested one at a time in list order; when the k-th fails the method   *)
(* returns an error at once, the k-1 reactions already added are left (no  *)
(* removal is requested) and the later emojis are not attempted; the       *)
(* result is success only when every emoji was added.                      *)
(***************************************************************************)
IsAddMultiple(r) == r.op = "add_multiple_reactions" /\ r.h # 0

\* The dispatches of add_multiple_reactions suspended in a platform call.
AddingReactions == {p \in Suspended : p.op = "add_multiple_reactions"}

\* The index in the list of the emoji whose reaction is being requested.
EmojiIndex(p) == Len(p.a.emojis) - p.left

C33_InListOrder ==
    \A p \in AddingReactions :
        /\ p.stage \in {"fetch_message", "add_reaction"}
        /\ p.stage = "fetch_message" => p.calls = 1 /\ EmojiIndex(p) = 0
        /\ p.stage = "add_reaction" =>
              /\ EmojiIndex(p) \in 1..Len(p.a.emojis)
              /\ p.calls = 1 + EmojiIndex(p)

C33_Result ==
    (resp # NoResp /\ IsAddMultiple(resp) /\ resp.calls > 0) =>
        /\ resp.calls <= 1 + Len(resp.req.a.emojis)
        /\ resp.last.outcome = "ok" <=> ~Failed(resp)
        /\ ~Failed(resp) =>
              /\ resp.body = Obj([status |-> "success"])
              /\ resp.calls = 1 + Len(resp.req.a.emojis)

\* One more request of the same dispatch: the next emoji of the list.
C33_NextEmoji ==
    \A i \in DOMAIN rpc :
        (rpc[i] # Idle /\ rpc[i].op = "add_multiple_reactions"
         /\ rpc'[i] # Idle) =>
            (rpc'[i] = rpc[i]
             \/ /\ rpc'[i].stage = "add_reaction"
                /\ rpc'[i].calls = rpc[i].calls + 1
                /\ EmojiIndex(rpc'[i]) = EmojiIndex(rpc[i]) + 1
                /\ call' # NoCall /\ call'.kind = "add_reaction")

C33_BestEffortOrdered ==
    []C33_InListOrder /\ []C33_Result /\ [][C33_NextEmoji]_vars

\* Two emojis: the first reaction was added, the second was refused, and
\* the method returned the error after these three platform calls.
C33_Witness ==
    /\ resp # NoResp /\ IsAddMultiple(resp)
    /\ Len(resp.req.a.emojis) = 2 /\ resp.calls = 3
    /\ resp.last.outcome = "Forbidden"
    /\ ErrorText(resp.body) = "Permission denied"

(***************************************************************************)
(* C34.  RPC entry point without a valid DISCORD_TOKEN: no bot is created, *)
(* the RPC server serves all the same, and for the whole life of the       *)
(* process every tool call and resource read returns the 'Discord bot not  *)
(* initialized' error without any platform call.                           *)
(***************************************************************************)
\* The RPC server serves and no connection was ever started: main.main
\* took the branch of the missing token.
ServingWithoutToken == entry = "rpc" /\ pc = "serving" /\ starts = 0

C34_AlwaysUnavailable ==
    ServingWithoutToken =>
        /\ bot_instance = 0
        /\ \A h \in Handles : conn[h] = "new"
        /\ call = NoCall
        /\ \A i \in DOMAIN rpc : rpc[i] = Idle
        /\ resp # NoResp =>
              /\ resp.transport = "rpc"
              /\ ErrorText(resp.body) = NotInitialized
              /\ resp.h = 0 /\ resp.calls = 0

\* No bot appears later: no step of the serving process sets bot_instance.
C34_NoLateBot ==
    (entry = "rpc" /\ pc = "serving") => bot_instance' = bot_instance

HttpChoices == {"http", "streamable-http", "sse"}

C35_TransportSelected ==
    launch # NoLaunch =>
        /\ launch.transport \in HttpChoices =>
              launch.on = "http" /\ launch.at = "host:port/path"
        /\ launch.on = "stdio" <=> launch.transport = "stdio"

\* What the code does hold to: sse alone serves over HTTP.
C35_OnlySseOverHttp ==
    launch # NoLaunch => (launch.on = "http" <=> launch.transport = "sse")

====
